---- MODULE Spec2Model ----
(***************************************************************************)
(* The report pipeline of the generate-summary route (POST handler) of     *)
(* hungerrush-report: the rows of the downloaded spreadsheet are filtered  *)
(* by time of day and summed into the six fields of a Summary.             *)
(*                                                                         *)
(* Representation.                                                         *)
(*  - A JavaScript string is a sequence of one-character strings, so that  *)
(*    includes, split, match and toUpperCase are computed on characters.   *)
(*  - A JavaScript value is a record [t, s, n]: t is its typeof            *)
(*    ("string", "number", "undefined"), s its characters, n its number.   *)
(*  - A number that is an amount of money is an integer count of mills     *)
(*    (1/1000 of the currency unit). The amounts of the model are          *)
(*    multiples of 125 mills (1/8), which binary floating point holds and  *)
(*    adds exactly, so integer arithmetic is what the code computes.       *)
(***************************************************************************)
EXTENDS Integers, Sequences, FiniteSets, TLC

\* ------------------------------------------------------------------------
\* Bounds of the model

\* The largest number of rows of a downloaded sheet.
MaxRows == 2

\* ------------------------------------------------------------------------
\* JavaScript values and strings

Str(chars) == [t |-> "string", s |-> chars, n |-> 0]
Num(k) == [t |-> "number", s |-> <<>>, n |-> k]
Undefined == [t |-> "undefined", s |-> <<>>, n |-> 0]

\* ToBoolean: "" , 0 and undefined are falsy.
Truthy(v) ==
    CASE v.t = "string" -> v.s # <<>>
      [] v.t = "number" -> v.n # 0
      [] OTHER -> FALSE

UpperChars == <<"A","B","C","D","E","F","G","H","I","J","K","L","M",
                "N","O","P","Q","R","S","T","U","V","W","X","Y","Z">>
LowerChars == <<"a","b","c","d","e","f","g","h","i","j","k","l","m",
                "n","o","p","q","r","s","t","u","v","w","x","y","z">>

toUpperChar(c) ==
    IF \E i \in 1..26 : LowerChars[i] = c
    THEN UpperChars[CHOOSE i \in 1..26 : LowerChars[i] = c]
    ELSE c

toLowerChar(c) ==
    IF \E i \in 1..26 : UpperChars[i] = c
    THEN LowerChars[CHOOSE i \in 1..26 : UpperChars[i] = c]
    ELSE c

\* String.prototype.toUpperCase / toLowerCase
toUpperCase(s) == [i \in 1..Len(s) |-> toUpperChar(s[i])]
toLowerCase(s) == [i \in 1..Len(s) |-> toLowerChar(s[i])]

\* p occurs in s at position i
OccursAt(s, i, p) ==
    /\ i >= 1
    /\ i + Len(p) - 1 <= Len(s)
    /\ \A k \in 1..Len(p) : s[i + k - 1] = p[k]

\* String.prototype.includes: case-sensitive containment
includes(s, p) == \E i \in 1..(Len(s) + 1) : OccursAt(s, i, p)

\* /p/i.test(s) for a pattern p of literal characters
testI(s, p) == includes(toLowerCase(s), toLowerCase(p))

Digits == {"0","1","2","3","4","5","6","7","8","9"}
IsDigit(c) == c \in Digits
IsSpace(c) == c = " "

DigitVal(c) ==
    CASE c = "0" -> 0 [] c = "1" -> 1 [] c = "2" -> 2 [] c = "3" -> 3
      [] c = "4" -> 4 [] c = "5" -> 5 [] c = "6" -> 6 [] c = "7" -> 7
      [] c = "8" -> 8 [] c = "9" -> 9

\* The end of the longest run of characters satisfying Is that starts at i
\* (i - 1 when s[i] does not satisfy it).
RECURSIVE DigitRunEnd(_, _)
DigitRunEnd(s, i) ==
    IF i <= Len(s) /\ IsDigit(s[i]) THEN DigitRunEnd(s, i + 1) ELSE i - 1

RECURSIVE SpaceRunEnd(_, _)
SpaceRunEnd(s, i) ==
    IF i <= Len(s) /\ IsSpace(s[i]) THEN SpaceRunEnd(s, i + 1) ELSE i - 1

\* The decimal value of the digits s[a..b]
RECURSIVE DecValue(_, _, _)
DecValue(s, a, b) ==
    IF b < a THEN 0 ELSE DecValue(s, a, b - 1) * 10 + DigitVal(s[b])

\* parseInt(s, 10): the leading digits of s; NaN when there are none.
\* (The strings parsed here carry no sign and no leading blanks.)
NaN == [nan |-> TRUE, v |-> 0]
IntVal(k) == [nan |-> FALSE, v |-> k]
parseInt(s) ==
    LET e == DigitRunEnd(s, 1)
    IN  IF e < 1 THEN NaN ELSE IntVal(DecValue(s, 1, e))

\* String.prototype.split(sep) for a one-character separator
RECURSIVE splitFrom(_, _, _, _)
splitFrom(s, sep, i, cur) ==
    IF i > Len(s) THEN <<cur>>
    ELSE IF s[i] = sep THEN <<cur>> \o splitFrom(s, sep, i + 1, <<>>)
    ELSE splitFrom(s, sep, i + 1, Append(cur, s[i]))

split(s, sep) == splitFrom(s, sep, 1, <<>>)

\* ------------------------------------------------------------------------
\* Time of day of a row: timeStr.match(/(\d+):(\d+)\s*(AM|PM)/i)

\* The match that starts at position i, if there is one. \d+ is greedy and
\* what follows a run of digits is never a digit, so each group is the whole
\* run; likewise \s* is the whole run of blanks.
MatchTimeAt(s, i) ==
    LET e1 == DigitRunEnd(s, i)
        e2 == DigitRunEnd(s, e1 + 2)
        p  == SpaceRunEnd(s, e2 + 1) + 1
        lo == toLowerCase(s)
    IN  /\ e1 >= i
        /\ e1 + 1 <= Len(s)
        /\ s[e1 + 1] = ":"
        /\ e2 >= e1 + 2
        /\ OccursAt(lo, p, <<"a", "m">>) \/ OccursAt(lo, p, <<"p", "m">>)

\* match returns the leftmost match, or null.
timeMatch(s) ==
    IF \E i \in 1..Len(s) : MatchTimeAt(s, i)
    THEN LET i  == CHOOSE i \in 1..Len(s) :
                       /\ MatchTimeAt(s, i)
                       /\ \A j \in 1..(i - 1) : ~MatchTimeAt(s, j)
             e1 == DigitRunEnd(s, i)
             e2 == DigitRunEnd(s, e1 + 2)
             p  == SpaceRunEnd(s, e2 + 1) + 1
         IN  [matched |-> TRUE,
              g1 |-> SubSeq(s, i, e1),
              g2 |-> SubSeq(s, e1 + 2, e2),
              g3 |-> SubSeq(s, p, p + 1)]
    ELSE [matched |-> FALSE, g1 |-> <<>>, g2 |-> <<>>, g3 |-> <<>>]

\* to24Hours without the step from 12 AM to hour 0
to24HoursNoMidnight(hours, period) ==
    IF period = <<"P", "M">> /\ hours < 12 THEN hours + 12 ELSE hours

\* Convert to 24-hour format: the hours of a matched time.
to24Hours(hours, period) ==
    LET h1 == IF period = <<"P", "M">> /\ hours < 12 THEN hours + 12 ELSE hours
    IN  IF period = <<"A", "M">> /\ h1 = 12 THEN 0 ELSE h1

\* hours > startHours and the like, false when the bound is NaN
NumGt(a, b) == ~b.nan /\ a > b.v
NumLt(a, b) == ~b.nan /\ a < b.v
NumEq(a, b) == ~b.nan /\ a = b.v
NumGe(a, b) == ~b.nan /\ a >= b.v
NumLe(a, b) == ~b.nan /\ a <= b.v

\* isInRange with the start of the window left out (> for >=)
isInRangeOpenStart(hours, minutes, w) ==
    /\ NumGt(hours, w.startHours)
          \/ (NumEq(hours, w.startHours) /\ NumGt(minutes, w.startMinutes))
    /\ NumLt(hours, w.endHours)
          \/ (NumEq(hours, w.endHours) /\ NumLe(minutes, w.endMinutes))

\* isInRange that takes a start after the end as a window over midnight
isInRangeOverMidnight(hours, minutes, w) ==
    LET fromStart ==
            NumGt(hours, w.startHours)
               \/ (NumEq(hours, w.startHours) /\ NumGe(minutes, w.startMinutes))
        toEnd ==
            NumLt(hours, w.endHours)
               \/ (NumEq(hours, w.endHours) /\ NumLe(minutes, w.endMinutes))
        wraps ==
            /\ ~w.startHours.nan /\ ~w.endHours.nan
            /\ ~w.startMinutes.nan /\ ~w.endMinutes.nan
            /\ \/ w.startHours.v > w.endHours.v
               \/ (w.startHours.v = w.endHours.v
                      /\ w.startMinutes.v > w.endMinutes.v)
    IN  IF wraps THEN fromStart \/ toEnd ELSE fromStart /\ toEnd

\* The window of a request: [startHours, startMinutes, endHours, endMinutes]
isInRange(hours, minutes, w) ==
    /\ NumGt(hours, w.startHours)
          \/ (NumEq(hours, w.startHours) /\ NumGe(minutes, w.startMinutes))
    /\ NumLt(hours, w.endHours)
          \/ (NumEq(hours, w.endHours) /\ NumLe(minutes, w.endMinutes))

\* rowFilter without the test of row.Date
rowFilterNoDateTest(row, w) ==
    IF ~Truthy(row.Time) \/ row.Time.t # "string"
    THEN FALSE
    ELSE LET m == timeMatch(row.Time.s)
         IN  IF ~m.matched THEN FALSE
             ELSE LET hours   == to24Hours(parseInt(m.g1).v, toUpperCase(m.g3))
                      minutes == parseInt(m.g2).v
                  IN  isInRange(hours, minutes, w)

\* The callback of data.filter: whether the row is kept.
rowFilter(row, w) ==
    IF \/ ~Truthy(row.Date) \/ ~Truthy(row.Time)
       \/ row.Date.t # "string" \/ row.Time.t # "string"
    THEN FALSE
    ELSE LET m == timeMatch(row.Time.s)
         IN  IF ~m.matched THEN FALSE
             ELSE LET hours   == to24Hours(parseInt(m.g1).v, toUpperCase(m.g3))
                      minutes == parseInt(m.g2).v
                  IN  isInRange(hours, minutes, w)

\* Whether startDateTime.split('T')[1].split(':') throws a TypeError
\* (no 'T' in the string: split('T')[1] is undefined).
timePartsThrow(dateTime) == Len(split(dateTime, "T")) < 2

timeParts(dateTime) == split(split(dateTime, "T")[2], ":")

\* parseInt(parts[k], 10); parts[k] is undefined past the end, which parses
\* to NaN. k counts from 0 as in the code.
partInt(parts, k) == IF k + 1 <= Len(parts) THEN parseInt(parts[k + 1]) ELSE NaN

\* timeWindow that takes the range as absolute: an end on a later day than
\* the start lies 24 hours later
timeWindowAbsolute(startDateTime, endDateTime) ==
    LET endHours == partInt(timeParts(endDateTime), 0)
        sameDay  == split(startDateTime, "T")[1] = split(endDateTime, "T")[1]
    IN  [startHours   |-> partInt(timeParts(startDateTime), 0),
         startMinutes |-> partInt(timeParts(startDateTime), 1),
         endHours     |-> IF sameDay \/ endHours.nan THEN endHours
                          ELSE IntVal(endHours.v + 24),
         endMinutes   |-> partInt(timeParts(endDateTime), 1)]

timeWindow(startDateTime, endDateTime) ==
    [startHours   |-> partInt(timeParts(startDateTime), 0),
     startMinutes |-> partInt(timeParts(startDateTime), 1),
     endHours     |-> partInt(timeParts(endDateTime), 0),
     endMinutes   |-> partInt(timeParts(endDateTime), 1)]

\* ------------------------------------------------------------------------
\* Amounts: parseFloat(x) || 0, in mills

\* The first three decimals of the digits s[a..b], as mills
fracMills(s, a, b) ==
    LET d(k) == IF a + k <= b THEN DigitVal(s[a + k]) ELSE 0
    IN  d(0) * 100 + d(1) * 10 + d(2)

\* parseFloat of a string: blanks, an optional sign, digits, an optional
\* point and digits; whatever follows is ignored; NaN when no digit is read.
\* (Exponents and Infinity do not occur in the model's strings.)
parseFloatStr(s) ==
    LET i0   == SpaceRunEnd(s, 1) + 1
        neg  == i0 <= Len(s) /\ s[i0] = "-"
        i1   == IF i0 <= Len(s) /\ s[i0] \in {"-", "+"} THEN i0 + 1 ELSE i0
        e1   == DigitRunEnd(s, i1)
        dot  == e1 + 1 <= Len(s) /\ s[e1 + 1] = "."
        e2   == IF dot THEN DigitRunEnd(s, e1 + 2) ELSE e1 + 1
        mag  == DecValue(s, i1, e1) * 1000
                  + (IF dot THEN fracMills(s, e1 + 2, e2) ELSE 0)
    IN  IF e1 < i1 /\ (~dot \/ e2 < e1 + 2) THEN NaN
        ELSE IntVal(IF neg THEN 0 - mag ELSE mag)

\* parseFloat(x): a number is itself, undefined is NaN.
parseFloat(x) ==
    CASE x.t = "number" -> IntVal(x.n)
      [] x.t = "string" -> parseFloatStr(x.s)
      [] OTHER -> NaN

\* parseFloat(x) || 0
amountOf(x) == IF parseFloat(x).nan THEN 0 ELSE parseFloat(x).v

\* ------------------------------------------------------------------------
\* Channel and payment tests of the category sums

InStorePatterns ==
    { <<"P", "i", "c", "k", " ", "U", "p">>,
      <<"P", "i", "c", "k", "u", "p">>,
      <<"T", "o", " ", "G", "o">>,
      <<"W", "e", "b", " ", "P", "i", "c", "k", "u", "p">>,
      <<"W", "e", "b", " ", "P", "i", "c", "k", " ", "U", "p">> }

CardPatterns == { <<"V", "i", "s", "a">>, <<"M", "C">>, <<"A", "M", "E", "X">> }

\* row.Type || ''  and  row.Payment || ''
orEmpty(x) == IF Truthy(x) THEN x.s ELSE <<>>

\* /Pick Up|Pickup|To Go|Web Pickup|Web Pick Up/i.test(row.Type || '')
isInStore(row) == \E p \in InStorePatterns : testI(orEmpty(row.Type), p)

\* row.Type?.includes('Delivery')
isDelivery(row) ==
    row.Type.t = "string" /\ includes(row.Type.s, <<"D", "e", "l", "i", "v", "e", "r", "y">>)

\* row.Payment?.includes('Cash')
isCash(row) ==
    row.Payment.t = "string" /\ includes(row.Payment.s, <<"C", "a", "s", "h">>)

\* /Visa|MC|AMEX/i.test(row.Payment || '')
isCard(row) == \E p \in CardPatterns : testI(orEmpty(row.Payment), p)

\* sumTotal that rounds each row's amount to two decimals before adding it
RECURSIVE sumTotalRoundedRows(_)
sumTotalRoundedRows(rows) ==
    IF rows = <<>> THEN 0
    ELSE LET a == amountOf(Head(rows).Total)
             r == IF a < 0 THEN 0 - 10 * ((5 - a) \div 10)
                  ELSE 10 * ((a + 5) \div 10)
         IN  r + sumTotalRoundedRows(Tail(rows))

\* df.filter(keep).reduce((sum, row) => sum + (parseFloat(row[field]) || 0), 0)
RECURSIVE sumTotal(_)
sumTotal(df) ==
    IF df = <<>> THEN 0 ELSE amountOf(Head(df).Total) + sumTotal(Tail(df))

RECURSIVE sumTips(_)
sumTips(df) ==
    IF df = <<>> THEN 0 ELSE amountOf(Head(df).Tips) + sumTips(Tail(df))

cashInStoreRows(df) ==
    LET keep(row) == isCash(row) /\ isInStore(row) IN SelectSeq(df, keep)
cashDeliveryRows(df) ==
    LET keep(row) == isCash(row) /\ isDelivery(row) IN SelectSeq(df, keep)
cardInStoreRows(df) ==
    LET keep(row) == isCard(row) /\ isInStore(row) IN SelectSeq(df, keep)
cardDeliveryRows(df) ==
    LET keep(row) == isCard(row) /\ isDelivery(row) IN SelectSeq(df, keep)

\* Number((num / den).toFixed(2)) in mills, den > 0: the nearest hundredth,
\* a tie going away from zero.
toFixed2(num, den) ==
    LET mag == IF num < 0 THEN 0 - num ELSE num
        r   == 10 * ((2 * mag + 10 * den) \div (20 * den))
    IN  IF num < 0 THEN 0 - r ELSE r

\* const filteredData = data.filter(...)
filteredData(data, w) ==
    LET keep(row) == rowFilter(row, w) IN SelectSeq(data, keep)

\* summaryOf that forgets to divide the sales by the number of orders
summaryOfSalesAsAverage(rows) ==
    LET totalOrders == Len(rows)
        totalSales  == sumTotal(rows)
    IN  [cashSalesInStore       |-> toFixed2(sumTotal(cashInStoreRows(rows)), 1),
         cashSalesDelivery      |-> toFixed2(sumTotal(cashDeliveryRows(rows)), 1),
         creditCardTipsInStore  |-> toFixed2(sumTips(cardInStoreRows(rows)), 1),
         creditCardTipsDelivery |-> toFixed2(sumTips(cardDeliveryRows(rows)), 1),
         totalOrders            |-> totalOrders,
         averageOrderValue      |-> IF totalOrders > 0
                                    THEN toFixed2(totalSales, 1)
                                    ELSE toFixed2(0, 1)]

\* summaryOf that counts and averages only the rows of the two cash sums
summaryOfCashOrders(rows) ==
    LET orders      == cashInStoreRows(rows) \o cashDeliveryRows(rows)
        totalOrders == Len(orders)
        totalSales  == sumTotal(orders)
    IN  [cashSalesInStore       |-> toFixed2(sumTotal(cashInStoreRows(rows)), 1),
         cashSalesDelivery      |-> toFixed2(sumTotal(cashDeliveryRows(rows)), 1),
         creditCardTipsInStore  |-> toFixed2(sumTips(cardInStoreRows(rows)), 1),
         creditCardTipsDelivery |-> toFixed2(sumTips(cardDeliveryRows(rows)), 1),
         totalOrders            |-> totalOrders,
         averageOrderValue      |-> IF totalOrders > 0
                                    THEN toFixed2(totalSales, totalOrders)
                                    ELSE toFixed2(0, 1)]

\* The Summary computed from the filtered rows
summaryOf(df) ==
    LET totalOrders == Len(df)
        totalSales  == sumTotal(df)
    IN  [cashSalesInStore       |-> toFixed2(sumTotal(cashInStoreRows(df)), 1),
         cashSalesDelivery      |-> toFixed2(sumTotal(cashDeliveryRows(df)), 1),
         creditCardTipsInStore  |-> toFixed2(sumTips(cardInStoreRows(df)), 1),
         creditCardTipsDelivery |-> toFixed2(sumTips(cardDeliveryRows(df)), 1),
         totalOrders            |-> totalOrders,
         averageOrderValue      |-> IF totalOrders > 0
                                    THEN toFixed2(totalSales, totalOrders)
                                    ELSE toFixed2(0, 1)]

\* ------------------------------------------------------------------------
\* Status messages and error texts of the handler

MsgLooking ==
    <<"L", "o", "o", "k", "i", "n", "g", " ", "f", "o", "r", " ", "d",
    "o", "w", "n", "l", "o", "a", "d", "e", "d", " ", "E", "x", "c", "e",
    "l", " ", "f", "i", "l", "e", ".", ".", ".">>

MsgProcessing ==
    <<"P", "r", "o", "c", "e", "s", "s", "i", "n", "g", " ", "E", "x",
    "c", "e", "l", " ", "f", "i", "l", "e", ".", ".", ".">>

MsgFilteringPrefix ==
    <<"F", "i", "l", "t", "e", "r", "i", "n", "g", " ", "d", "a", "t",
    "a", " ", "f", "o", "r", " ", "t", "i", "m", "e", " ", "r", "a", "n",
    "g", "e", ":", " ">>

MsgTo ==
    <<" ", "t", "o", " ">>

MsgCalculating ==
    <<"C", "a", "l", "c", "u", "l", "a", "t", "i", "n", "g", " ", "s",
    "u", "m", "m", "a", "r", "y", " ", "d", "a", "t", "a", ".", ".", ".">>

MsgComplete ==
    <<"G", "e", "n", "e", "r", "a", "t", "i", "o", "n", " ", "c", "o",
    "m", "p", "l", "e", "t", "e", "!">>

ErrNotFound ==
    <<"E", "x", "c", "e", "l", " ", "f", "i", "l", "e", " ", "n", "o",
    "t", " ", "f", "o", "u", "n", "d", " ", "i", "n", " ", "d", "o", "w",
    "n", "l", "o", "a", "d", "s", " ", "f", "o", "l", "d", "e", "r">>

ErrSplit ==
    <<"C", "a", "n", "n", "o", "t", " ", "r", "e", "a", "d", " ", "p",
    "r", "o", "p", "e", "r", "t", "i", "e", "s", " ", "o", "f", " ", "u",
    "n", "d", "e", "f", "i", "n", "e", "d", " ", "(", "r", "e", "a", "d",
    "i", "n", "g", " ", "'", "s", "p", "l", "i", "t", "'", ")">>

ErrPrefix ==
    <<"F", "a", "i", "l", "e", "d", " ", "t", "o", " ", "p", "r", "o",
    "c", "e", "s", "s", " ", "f", "i", "l", "e", ":", " ">>

ErrNotConfigured ==
    <<"H", "u", "n", "g", "e", "r", "R", "u", "s", "h", " ", "u", "s",
    "e", "r", "n", "a", "m", "e", " ", "n", "o", "t", " ", "c", "o", "n",
    "f", "i", "g", "u", "r", "e", "d">>

MockNote ==
    <<"T", "h", "i", "s", " ", "i", "s", " ", "c", "a", "c", "h", "e",
    "d", " ", "d", "a", "t", "a", ".", " ", "F", "o", "r", " ", "l", "i",
    "v", "e", " ", "d", "a", "t", "a", ",", " ", "r", "u", "n", " ", "t",
    "h", "e", " ", "a", "p", "p", " ", "l", "o", "c", "a", "l", "l", "y",
    ".">>

\* The `Filtering data for time range: ${startDateTime} to ${endDateTime}`
MsgFiltering(startDateTime, endDateTime) ==
    MsgFilteringPrefix \o startDateTime \o MsgTo \o endDateTime

\* updateStatus maps the message to a status type, first test first; a
\* message that passes no test leaves currentStatus as it is.
statusType(cur, status) ==
    CASE includes(status, <<"N", "a", "v", "i", "g", "a", "t", "i", "n", "g", " ", "t", "o", " ", "H", "u", "n", "g", "e", "r", "R", "u", "s", "h">>)
           -> "navigating"
      [] includes(status, <<"L", "o", "g", "g", "i", "n", "g", " ", "i", "n">>)
           -> "logging-in"
      [] includes(status, <<"N", "a", "v", "i", "g", "a", "t", "i", "n", "g", " ", "t", "o", " ", "R", "e", "p", "o", "r", "t", "i", "n", "g">>)
           -> "navigating-to-reporting"
      [] includes(status, <<"S", "e", "l", "e", "c", "t", "i", "n", "g", " ", "s", "t", "o", "r", "e">>)
           \/ includes(status, <<"P", "i", "q", "u", "a", " ", "s", "t", "o", "r", "e">>)
           -> "selecting-store"
      [] includes(status, <<"R", "u", "n", "n", "i", "n", "g", " ", "r", "e", "p", "o", "r", "t">>)
           -> "running-report"
      [] includes(status, <<"E", "x", "p", "o", "r", "t", "i", "n", "g">>)
           \/ includes(status, <<"E", "x", "c", "e", "l">>)
           -> "exporting"
      [] includes(status, <<"P", "r", "o", "c", "e", "s", "s", "i", "n", "g">>)
           \/ includes(status, <<"F", "i", "l", "t", "e", "r", "i", "n", "g">>)
           \/ includes(status, <<"C", "a", "l", "c", "u", "l", "a", "t", "i", "n", "g">>)
           -> "processing"
      [] includes(status, <<"c", "o", "m", "p", "l", "e", "t", "e">>)
           -> "completed"
      [] OTHER -> cur

\* The status variables after the calls updateStatus(msgs[1]), ...
RECURSIVE updateStatusAll(_, _)
updateStatusAll(st, msgs) ==
    IF msgs = <<>> THEN st
    ELSE updateStatusAll([currentStatus |-> statusType(st.currentStatus, Head(msgs)),
                          statusMessage |-> Head(msgs)],
                         Tail(msgs))

\* ------------------------------------------------------------------------
\* Responses

NoFields ==
    [cashSalesInStore |-> 0, cashSalesDelivery |-> 0,
     creditCardTipsInStore |-> 0, creditCardTipsDelivery |-> 0,
     totalOrders |-> 0, averageOrderValue |-> 0]

\* const mockData (amounts in mills); its _note is MockNote
mockData ==
    [cashSalesInStore |-> 256750, cashSalesDelivery |-> 124500,
     creditCardTipsInStore |-> 45250, creditCardTipsDelivery |-> 32800,
     totalOrders |-> 24, averageOrderValue |-> 42330]

\* A response: its HTTP status and its JSON body. hasSummary tells whether
\* the body carries the six Summary fields (summary); _note, _error and
\* error are the body's other keys, Undefined when absent.
Response(status, hasSummary, summary, note, err, error) ==
    [status |-> status, hasSummary |-> hasSummary, summary |-> summary,
     _note |-> note, _error |-> err, error |-> error]

NoResponse == Response(0, FALSE, NoFields, Undefined, Undefined, Undefined)
NoRequest == [startDateTime |-> <<>>, endDateTime |-> <<>>]

\* JSON.stringify(summary), status 200
summaryResponse(summary) ==
    Response(200, TRUE, summary, Undefined, Undefined, Undefined)

\* JSON.stringify(mockData), status 200
mockResponse ==
    Response(200, TRUE, mockData, Str(MockNote), Undefined, Undefined)

\* { ...mockData, _error: `Failed to process file: ${error.message}` }
processErrorResponse(message) ==
    Response(200, TRUE, mockData, Str(MockNote), Str(ErrPrefix \o message),
             Undefined)

\* notConfiguredResponse that answers like the catch blocks, with mockData
notConfiguredResponseAsFallback ==
    Response(200, TRUE, mockData, Str(MockNote), Str(ErrNotConfigured), Undefined)

\* { error: 'HungerRush username not configured' }, status 500
notConfiguredResponse ==
    Response(500, FALSE, NoFields, Undefined, Undefined, Str(ErrNotConfigured))

\* ------------------------------------------------------------------------
\* The status messages of the browser automation, in the order of the calls
\* updateStatus(...) that precede the download wait

MsgNavigating ==
    <<"N", "a", "v", "i", "g", "a", "t", "i", "n", "g", " ", "t", "o", " ",
      "H", "u", "n", "g", "e", "r", "R", "u", "s", "h", ".", ".", ".">>

MsgLoggingIn ==
    <<"L", "o", "g", "g", "i", "n", "g", " ", "i", "n", ".", ".", ".">>

MsgClickingLogin ==
    <<"C", "l", "i", "c", "k", "i", "n", "g", " ", "l", "o", "g", "i", "n",
      " ", "b", "u", "t", "t", "o", "n", ".", ".", ".">>

MsgNavigatingToReporting ==
    <<"N", "a", "v", "i", "g", "a", "t", "i", "n", "g", " ", "t", "o", " ",
      "R", "e", "p", "o", "r", "t", "i", "n", "g", ".", ".", ".">>

MsgClickingOrderDetails ==
    <<"C", "l", "i", "c", "k", "i", "n", "g", " ", "O", "r", "d", "e", "r",
      " ", "D", "e", "t", "a", "i", "l", "s", ".", ".", ".">>

MsgSelectingStore ==
    <<"S", "e", "l", "e", "c", "t", "i", "n", "g", " ", "s", "t", "o", "r",
      "e", ".", ".", ".">>

MsgSelectingPiqua ==
    <<"S", "e", "l", "e", "c", "t", "i", "n", "g", " ", "P", "i", "q", "u",
      "a", " ", "s", "t", "o", "r", "e", ".", ".", ".">>

MsgSkippingDateRange ==
    <<"S", "k", "i", "p", "p", "i", "n", "g", " ", "d", "a", "t", "e", " ",
      "r", "a", "n", "g", "e", " ", "-", " ", "u", "s", "i", "n", "g", " ",
      "d", "e", "f", "a", "u", "l", "t", " ", "(", "c", "u", "r", "r", "e",
      "n", "t", " ", "d", "a", "y", ")">>

MsgRunningReport ==
    <<"R", "u", "n", "n", "i", "n", "g", " ", "r", "e", "p", "o", "r", "t",
      ".", ".", ".">>

MsgWaitingForReport ==
    <<"W", "a", "i", "t", "i", "n", "g", " ", "f", "o", "r", " ", "r", "e",
      "p", "o", "r", "t", " ", "t", "o", " ", "l", "o", "a", "d", ".", ".",
      ".">>

MsgExporting ==
    <<"E", "x", "p", "o", "r", "t", "i", "n", "g", " ", "t", "o", " ", "E",
      "x", "c", "e", "l", ".", ".", ".">>

MsgClickingExcel ==
    <<"C", "l", "i", "c", "k", "i", "n", "g", " ", "E", "x", "c", "e", "l",
      " ", "e", "x", "p", "o", "r", "t", " ", "o", "p", "t", "i", "o", "n",
      ".", ".", ".">>

MsgWaitingForDownload ==
    <<"W", "a", "i", "t", "i", "n", "g", " ", "f", "o", "r", " ", "d", "o",
      "w", "n", "l", "o", "a", "d", " ", "t", "o", " ", "c", "o", "m", "p",
      "l", "e", "t", "e", ".", ".", ".">>

AutomationMsgs ==
    <<MsgNavigating, MsgLoggingIn, MsgClickingLogin,
      MsgNavigatingToReporting, MsgClickingOrderDetails, MsgSelectingStore,
      MsgSelectingPiqua, MsgSkippingDateRange, MsgRunningReport,
      MsgWaitingForReport, MsgExporting, MsgClickingExcel,
      MsgWaitingForDownload>>

\* `Automation failed: ${error.message}`
ErrAutomationPrefix ==
    <<"A", "u", "t", "o", "m", "a", "t", "i", "o", "n", " ", "f", "a", "i",
      "l", "e", "d", ":", " ">>

\* The message of an error that a browser step threw
ErrTimeout ==
    <<"T", "i", "m", "e", "o", "u", "t", " ", "3", "0", "0", "0", "0", "m",
      "s", " ", "e", "x", "c", "e", "e", "d", "e", "d", ".">>

\* automationErrorResponse that leaves the _error key out
automationErrorResponseNoError(message) ==
    Response(200, TRUE, mockData, Str(MockNote), Undefined, Undefined)

\* { ...mockData, _error: `Automation failed: ${error.message}` }
automationErrorResponse(message) ==
    Response(200, TRUE, mockData, Str(MockNote),
             Str(ErrAutomationPrefix \o message), Undefined)

\* ------------------------------------------------------------------------
\* The result cache: an object whose keys keep their insertion order,
\* modelled as the sequence of its [key, value] entries.

CacheLimit == 20

\* `${startDateTime}-${endDateTime}`
cacheKeyOf(req) == req.startDateTime \o <<"-">> \o req.endDateTime

cacheHas(cache, key) == \E i \in 1..Len(cache) : cache[i].key = key

cacheGet(cache, key) ==
    cache[CHOOSE i \in 1..Len(cache) : cache[i].key = key].value

\* cachedResponses[cacheKey] = summary: an existing key keeps its place.
cacheSet(cache, key, value) ==
    IF cacheHas(cache, key)
    THEN [i \in 1..Len(cache) |->
             IF cache[i].key = key THEN [key |-> key, value |-> value]
             ELSE cache[i]]
    ELSE Append(cache, [key |-> key, value |-> value])

\* cacheTrim that removes the newest entry
cacheTrimNewest(cache) ==
    IF Len(cache) > CacheLimit THEN SubSeq(cache, 1, Len(cache) - 1) ELSE cache

\* if (cacheKeys.length > 20) delete cachedResponses[cacheKeys[0]]
cacheTrim(cache) == IF Len(cache) > CacheLimit THEN Tail(cache) ELSE cache

\* ------------------------------------------------------------------------
\* The synchronous block of the handler that follows the download wait:
\* find the sheet, read it, filter, sum. It yields the status messages it
\* issued and either the Summary or the message of the error it threw.

processSheet(sheet, req) ==
    IF ~sheet.exists
    THEN [threw |-> TRUE, message |-> ErrNotFound, summary |-> NoFields,
          df |-> <<>>, msgs |-> <<MsgLooking>>]
    ELSE IF timePartsThrow(req.startDateTime) \/ timePartsThrow(req.endDateTime)
    THEN [threw |-> TRUE, message |-> ErrSplit, summary |-> NoFields,
          df |-> <<>>,
          msgs |-> <<MsgLooking, MsgProcessing,
                     MsgFiltering(req.startDateTime, req.endDateTime)>>]
    ELSE LET w  == timeWindow(req.startDateTime, req.endDateTime)
             df == filteredData(sheet.rows, w)
         IN  [threw |-> FALSE, message |-> <<>>, summary |-> summaryOf(df),
              df |-> df,
              msgs |-> <<MsgLooking, MsgProcessing,
                         MsgFiltering(req.startDateTime, req.endDateTime),
                         MsgCalculating, MsgComplete>>]

\* ------------------------------------------------------------------------
\* State

VARIABLES
    NODE_ENV,               \* process.env.NODE_ENV
    HUNGER_RUSH_USERNAME,   \* process.env.HUNGER_RUSH_USERNAME
    sheet,                  \* the latest order-details sheet of the download
                            \* folder: whether there is one, its rows, and the
                            \* invocation whose export wrote it (0: none)
    currentStatus,          \* let currentStatus
    statusMessage,          \* let statusMessage
    cachedResponses,        \* let cachedResponses
    request,                \* the body of the request that was answered
    df,                     \* const filteredData (= df) of that request
    response,               \* the response it got
    now,                    \* Date.now(), in ticks
    lastUpdated,            \* let lastUpdated
    calls,                  \* the invocations of POST of the server: where
                            \* each one is, its request, browser and response
    polled,                 \* the response of GET, on the step that sends it
    page,                   \* the client page: its state (isLoading, status,
                            \* pollIntervalId), its interval, the status
                            \* responses on their way to it, the submits it
                            \* has sent and the responses it has handled
    folder                  \* the download directory of the fetchReport
                            \* variants: its file names in the order the
                            \* files were written, and the file that the last
                            \* search of a variant took

vars == <<NODE_ENV, HUNGER_RUSH_USERNAME, sheet, currentStatus, statusMessage,
          cachedResponses, request, df, response, now, lastUpdated, calls,
          polled, page, folder>>

\* ------------------------------------------------------------------------
\* The values the rows and the requests of the model are drawn from

D_Mar26 == <<"M", "a", "r", " ", "2", "6", " ", "2", "0", "2", "5">>
D_Mar27 == <<"M", "a", "r", " ", "2", "7", " ", "2", "0", "2", "5">>
T_0859 == <<"8", ":", "5", "9", " ", "A", "M">>
T_0900 == <<"9", ":", "0", "0", " ", "A", "M">>
T_0929 == <<"9", ":", "2", "9", " ", "A", "M">>
T_0930 == <<"9", ":", "3", "0", " ", "A", "M">>
T_1000 == <<"1", "0", ":", "0", "0", " ", "A", "M">>
T_1100 == <<"1", "1", ":", "0", "0", " ", "A", "M">>
T_1101 == <<"1", "1", ":", "0", "1", " ", "A", "M">>
T_0030 == <<"1", "2", ":", "3", "0", " ", "A", "M">>
T_1230 == <<"1", "2", ":", "3", "0", " ", "P", "M">>
T_1315 == <<"1", ":", "1", "5", " ", "p", "m">>
T_garbage == <<"g", "a", "r", "b", "a", "g", "e">>
T_24h == <<"1", "4", ":", "3", "0">>
Ty_Pickup == <<"P", "i", "c", "k", "u", "p">>
Ty_PICKUP == <<"P", "I", "C", "K", "U", "P">>
Ty_WebPickUp == <<"W", "e", "b", " ", "P", "i", "c", "k", " ", "U", "p">>
Ty_ToGo == <<"T", "o", " ", "G", "o">>
Ty_Delivery == <<"D", "e", "l", "i", "v", "e", "r", "y">>
Ty_DELIVERY == <<"D", "E", "L", "I", "V", "E", "R", "Y">>
Ty_DineIn == <<"D", "i", "n", "e", " ", "I", "n">>
Ty_Both == <<"P", "i", "c", "k", "u", "p", " ", "o", "r", " ", "D", "e", "l", "i", "v", "e", "r", "y">>
P_Cash == <<"C", "a", "s", "h">>
P_CASH == <<"C", "A", "S", "H">>
P_Visa == <<"V", "i", "s", "a">>
P_visa == <<"v", "i", "s", "a">>
P_MC == <<"M", "C">>
P_AMEX == <<"A", "M", "E", "X">>
P_Gift == <<"G", "i", "f", "t", " ", "C", "a", "r", "d">>
P_Split == <<"C", "a", "s", "h", "/", "V", "i", "s", "a">>
A_7_5 == <<"7", ".", "5">>
A_NA == <<"N", "/", "A">>
A_1_25 == <<"1", ".", "2", "5">>
Day26 == <<"2", "0", "2", "5", "-", "0", "3", "-", "2", "6">>
Day27 == <<"2", "0", "2", "5", "-", "0", "3", "-", "2", "7">>
Day28 == <<"2", "0", "2", "5", "-", "0", "3", "-", "2", "8">>
Bad_Request == <<"2", "0", "2", "5", "-", "0", "3", "-", "2", "6", " ", "0", "9", ":", "0", "0">>

\* One row of sheet_to_json: the columns the handler reads
Row(date, time, type, payment, total, tips) ==
    [Date |-> date, Time |-> time, Type |-> type, Payment |-> payment,
     Total |-> total, Tips |-> tips]

\* A date cell that the sheet holds as a serial number, not as text
SerialDate == Num(45742)
\* A time cell that the sheet holds as a fraction of a day (in thousandths)
SerialTime == Num(417)

\* A cash pick-up order and an order of neither channel nor payment class
PickupCash(date, time) ==
    Row(date, time, Str(Ty_Pickup), Str(P_Cash), Num(10000), Undefined)
DineInGift(date, time) ==
    Row(date, time, Str(Ty_DineIn), Str(P_Gift), Num(20125), Num(3000))

GoodTimes ==
    { T_0859, T_0900, T_0929, T_0930, T_1000, T_1100, T_1101,
      T_0030, T_1230, T_1315 }

\* Rows that differ in Date and Time
FilterRows ==
    { PickupCash(Str(D_Mar26), Str(tm)) : tm \in GoodTimes \cup {T_garbage, T_24h} }
    \cup { PickupCash(Str(D_Mar26), tm) : tm \in {Undefined, SerialTime, Str(<<>>)} }
    \cup { PickupCash(d, Str(T_1000)) :
              d \in {Str(D_Mar27), Undefined, Str(<<>>), SerialDate} }
    \cup { DineInGift(Str(D_Mar26), Str(T_1000)) }

\* Rows that differ in Type, Payment, Total and Tips
SumsRow(type, payment, total, tips) ==
    Row(Str(D_Mar26), Str(T_1000), type, payment, total, tips)

SumsRows ==
    { SumsRow(Str(ty), Str(pm), Num(10125), Num(3375)) :
          ty \in {Ty_Pickup, Ty_Delivery, Ty_DineIn},
          pm \in {P_Cash, P_Visa, P_Gift} }
    \cup { SumsRow(Str(ty), Str(P_Cash), Num(10125), Num(3375)) :
              ty \in {Ty_PICKUP, Ty_DELIVERY, Ty_Both} }
    \cup { SumsRow(Str(Ty_Delivery), Str(pm), Num(10125), Num(3375)) :
              pm \in {P_CASH, P_visa, P_Split} }
    \cup { SumsRow(Str(Ty_WebPickUp), Str(P_MC), Num(20000), Num(125)),
           SumsRow(Str(Ty_ToGo), Str(P_AMEX), Num(20000), Undefined),
           SumsRow(Undefined, Str(P_Cash), Num(10125), Num(3375)),
           SumsRow(Str(Ty_Pickup), Undefined, Num(10125), Num(3375)),
           SumsRow(Str(Ty_Pickup), Str(P_Cash), Num(125), Undefined),
           SumsRow(Str(Ty_Pickup), Str(P_Cash), Str(A_7_5), Undefined),
           SumsRow(Str(Ty_Pickup), Str(P_Cash), Str(A_NA), Num(3375)),
           SumsRow(Str(Ty_Pickup), Str(P_Cash), Undefined, Num(3375)),
           SumsRow(Str(Ty_Delivery), Str(P_Visa), Num(20000), Str(A_1_25)),
           SumsRow(Str(Ty_Delivery), Str(P_Visa), Undefined, Str(A_NA)),
           Row(Str(D_Mar26), Str(T_0859), Str(Ty_Pickup), Str(P_Cash),
               Num(10125), Num(3375)) }

\* `${startDate}T${startTime}:00.000Z` of the client
IsoOf(day, hhmm) == day \o <<"T">> \o hhmm \o <<":", "0", "0", ".", "0", "0", "0", "Z">>

Req(startDay, startTime, endDay, endTime) ==
    [startDateTime |-> IsoOf(startDay, startTime),
     endDateTime   |-> IsoOf(endDay, endTime)]

H0900 == <<"0", "9", ":", "0", "0">>
H0930 == <<"0", "9", ":", "3", "0">>
H1100 == <<"1", "1", ":", "0", "0">>
H1230 == <<"1", "2", ":", "3", "0">>

Requests ==
    { Req(Day26, H0900, Day26, H1100),
      Req(Day27, H0900, Day28, H1100),
      Req(Day26, H0930, Day26, H1230),
      Req(Day26, H1100, Day26, H0900),
      [startDateTime |-> Bad_Request, endDateTime |-> Bad_Request] }

\* ------------------------------------------------------------------------
\* The invocations of POST and the response of GET

MaxCalls == 2
MaxClock == 1

Calls == 1..MaxCalls

\* An invocation that has not been made yet. pc is where the handler is:
\* "idle", "launching" (await chromium.launch), "automating" (an await that
\* follows the step-th status message), "closing" (await browser.close() of
\* the catch) or "done" (returned); step counts the status messages of the
\* automation while it runs, message is the message of the error that the
\* catch holds, browser tells whether the invocation's browser is open.
IdleCall ==
    [pc |-> "idle", step |-> 0, req |-> NoRequest, browser |-> FALSE,
     message |-> <<>>, response |-> NoResponse]

\* No GET is being answered
NoPoll == [status |-> 0, body |-> [status |-> "", message |-> <<>>, lastUpdated |-> 0]]

\* No interval: setInterval has not run, or clearInterval has. An interval
\* holds the pollStatus of the render that set it, which closes over that
\* render's isLoading and pollIntervalId
NoTimer == [id |-> 0, isLoading |-> FALSE, pollIntervalId |-> 0]

\* The page as it is mounted: the status context idle and not loading,
\* pollIntervalId null (0). timers counts the intervals set so far, polls
\* holds the status responses on their way to the page, each with the
\* pollIntervalId of the pollStatus that awaits it; submits and handled count
\* the POSTs sent and the POST responses handled; final tells whether a poll
\* of the current submit has entered the branch of 'completed' or 'error'
InitialPage ==
    [isLoading |-> FALSE, status |-> "idle", pollIntervalId |-> 0,
     timer |-> NoTimer, timers |-> 0, polls |-> {}, submits |-> 0,
     handled |-> 0, final |-> FALSE]

\* No file yet, and no search
EmptyFolder == [files |-> <<>>, variant |-> "", excelFile |-> <<>>]

\* ------------------------------------------------------------------------
\* Initial state: the module-level variables as the module sets them, the
\* environment as the deployment sets it, no sheet downloaded yet

Init ==
    /\ NODE_ENV \in {"production", "development"}
    /\ HUNGER_RUSH_USERNAME \in {Undefined, Str(<<"u", "s", "e", "r">>)}
    /\ sheet = [exists |-> FALSE, rows |-> <<>>, by |-> 0]
    /\ currentStatus = "idle"
    /\ statusMessage = <<>>
    /\ cachedResponses = <<>>
    /\ request = NoRequest
    /\ df = <<>>
    /\ response = NoResponse
    /\ now = 0
    /\ lastUpdated = 0
    /\ calls = [c \in Calls |-> IdleCall]
    /\ polled = NoPoll
    /\ page = InitialPage
    /\ folder = EmptyFolder

\* ------------------------------------------------------------------------
\* The export of the automation: the portal writes the sheet, row by row.
\* It runs only where the handler drives the browser.

Automating ==
    /\ NODE_ENV # "production"
    /\ Truthy(HUNGER_RUSH_USERNAME)
    /\ response = NoResponse

\* A sheet with no order rows
ExportSheet ==
    /\ Automating
    /\ ~sheet.exists
    /\ sheet' = [exists |-> TRUE, rows |-> <<>>, by |-> 0]
    /\ UNCHANGED <<folder, page, NODE_ENV, HUNGER_RUSH_USERNAME,
                   currentStatus, statusMessage, cachedResponses, request, df,
                   response, now, lastUpdated, calls, polled>>

ExportRowOf(rows) ==
    /\ Automating
    /\ Len(sheet.rows) < MaxRows
    /\ \E row \in rows :
          sheet' = [exists |-> TRUE, rows |-> Append(sheet.rows, row), by |-> 0]
    /\ UNCHANGED <<folder, page, NODE_ENV, HUNGER_RUSH_USERNAME,
                   currentStatus, statusMessage, cachedResponses, request, df,
                   response, now, lastUpdated, calls, polled>>

ExportFilterRow == ExportRowOf(FilterRows)
ExportSumsRow == ExportRowOf(SumsRows)

\* ------------------------------------------------------------------------
\* POST. Each behaviour answers one request.

\* NODE_ENV === 'production': the cached summary of this key, or mockData
POSTProduction ==
    /\ response = NoResponse
    /\ NODE_ENV = "production"
    /\ \E req \in Requests :
          /\ request' = req
          /\ response' =
                IF cacheHas(cachedResponses, cacheKeyOf(req))
                THEN summaryResponse(cacheGet(cachedResponses, cacheKeyOf(req)))
                ELSE mockResponse
    /\ UNCHANGED <<folder, page, NODE_ENV, HUNGER_RUSH_USERNAME, sheet,
                   currentStatus, statusMessage, cachedResponses, df, now,
                   lastUpdated, calls, polled>>

\* !process.env.HUNGER_RUSH_USERNAME: status 500, before any browser
POSTNotConfigured ==
    /\ response = NoResponse
    /\ NODE_ENV # "production"
    /\ ~Truthy(HUNGER_RUSH_USERNAME)
    /\ \E req \in Requests :
          /\ request' = req
          /\ response' = notConfiguredResponse
    /\ UNCHANGED <<folder, page, NODE_ENV, HUNGER_RUSH_USERNAME, sheet,
                   currentStatus, statusMessage, cachedResponses, df, now,
                   lastUpdated, calls, polled>>

\* The inner try block from its result r on: the status messages, the cache
\* update and the response, or the catch.
POSTAnswer(req, r) ==
    LET st == updateStatusAll([currentStatus |-> currentStatus,
                               statusMessage |-> statusMessage], r.msgs)
    IN  /\ request' = req
        /\ df' = r.df
        /\ currentStatus' = st.currentStatus
        /\ statusMessage' = st.statusMessage
        /\ lastUpdated' = now
        /\ cachedResponses' =
              IF r.threw THEN cachedResponses
              ELSE cacheTrim(cacheSet(cachedResponses, cacheKeyOf(req),
                                      r.summary))
        /\ response' =
              IF r.threw THEN processErrorResponse(r.message)
              ELSE summaryResponse(r.summary)

\* The handler once the automation has run through the download wait.
POSTProcess ==
    /\ response = NoResponse
    /\ NODE_ENV # "production"
    /\ Truthy(HUNGER_RUSH_USERNAME)
    /\ \E req \in Requests : POSTAnswer(req, processSheet(sheet, req))
    /\ UNCHANGED <<folder, page, NODE_ENV, HUNGER_RUSH_USERNAME, sheet, now,
                   calls, polled>>

POST == POSTProduction \/ POSTNotConfigured \/ POSTProcess

NextFilter == ExportSheet \/ ExportFilterRow \/ POST
NextSums == ExportSheet \/ ExportSumsRow \/ POST

\* Sheets whose rows differ in date and time
SpecFilter == Init /\ [][NextFilter]_vars
\* Sheets whose rows differ in channel, payment and amounts
SpecSums == Init /\ [][NextSums]_vars

\* ------------------------------------------------------------------------
\* The server: invocations of POST that run step by step, each await a point
\* where the other invocation, GET and the clock can run

\* The sheet that the export of the portal writes to the download folder
DownloadedSheet(c) ==
    [exists |-> TRUE, rows |-> <<PickupCash(Str(D_Mar26), Str(T_1000))>>,
     by |-> c]

ServerRequests ==
    { Req(Day26, H0900, Day26, H1100),
      [startDateTime |-> Bad_Request, endDateTime |-> Bad_Request] }

\* The messages of the errors that the browser steps throw
AutomationErrors == {<<>>, ErrTimeout}

\* Invocations are numbered in the order they arrive
Arrives(c) ==
    /\ calls[c].pc = "idle"
    /\ c > 1 => calls[c - 1].pc # "idle"

\* The calls updateStatus(msgs[1]), ... of one synchronous stretch
updateStatus(msgs) ==
    LET st == updateStatusAll([currentStatus |-> currentStatus,
                               statusMessage |-> statusMessage], msgs)
    IN  /\ currentStatus' = st.currentStatus
        /\ statusMessage' = st.statusMessage
        /\ lastUpdated' = now

\* Date.now() advances
Tick ==
    /\ now < MaxClock
    /\ now' = now + 1
    /\ polled' = NoPoll
    /\ UNCHANGED <<folder, page, NODE_ENV, HUNGER_RUSH_USERNAME, sheet,
                   currentStatus, statusMessage, cachedResponses, request, df,
                   response, lastUpdated, calls>>

\* The export that a browser has asked for arrives in the download folder,
\* where it is the latest order-details file from then on
Download ==
    /\ \E c \in Calls : /\ calls[c].pc = "automating"
                        /\ calls[c].step = Len(AutomationMsgs)
                        /\ sheet.by # c
                        /\ sheet' = DownloadedSheet(c)
    /\ polled' = NoPoll
    /\ UNCHANGED <<folder, page, NODE_ENV, HUNGER_RUSH_USERNAME,
                   currentStatus, statusMessage, cachedResponses, request, df,
                   response, now, lastUpdated, calls>>

\* CallProduction that reports a stage, as the automation does
CallProductionWithStatus(c) ==
    /\ Arrives(c)
    /\ NODE_ENV = "production"
    /\ \E req \in ServerRequests :
          calls' = [calls EXCEPT ![c] =
                      [@ EXCEPT !.pc = "done", !.req = req,
                                !.response =
                                   IF cacheHas(cachedResponses, cacheKeyOf(req))
                                   THEN summaryResponse(
                                          cacheGet(cachedResponses, cacheKeyOf(req)))
                                   ELSE mockResponse]]
    /\ polled' = NoPoll
    /\ updateStatus(<<MsgNavigating>>)
    /\ UNCHANGED <<folder, page, NODE_ENV, HUNGER_RUSH_USERNAME, sheet,
                   cachedResponses, request, df, response, now>>

\* POST in production: the cached summary of the key, or mockData
CallProduction(c) ==
    /\ Arrives(c)
    /\ NODE_ENV = "production"
    /\ \E req \in ServerRequests :
          calls' = [calls EXCEPT ![c] =
                      [@ EXCEPT !.pc = "done", !.req = req,
                                !.response =
                                   IF cacheHas(cachedResponses, cacheKeyOf(req))
                                   THEN summaryResponse(
                                          cacheGet(cachedResponses, cacheKeyOf(req)))
                                   ELSE mockResponse]]
    /\ polled' = NoPoll
    /\ UNCHANGED <<folder, page, NODE_ENV, HUNGER_RUSH_USERNAME, sheet,
                   currentStatus, statusMessage, cachedResponses, request, df,
                   response, now, lastUpdated>>

\* POST without HUNGER_RUSH_USERNAME: status 500
CallNotConfigured(c) ==
    /\ Arrives(c)
    /\ NODE_ENV # "production"
    /\ ~Truthy(HUNGER_RUSH_USERNAME)
    /\ \E req \in ServerRequests :
          calls' = [calls EXCEPT ![c] =
                      [@ EXCEPT !.pc = "done", !.req = req,
                                !.response = notConfiguredResponse]]
    /\ polled' = NoPoll
    /\ UNCHANGED <<folder, page, NODE_ENV, HUNGER_RUSH_USERNAME, sheet,
                   currentStatus, statusMessage, cachedResponses, request, df,
                   response, now, lastUpdated>>

\* POST up to await chromium.launch(...)
CallLaunch(c) ==
    /\ Arrives(c)
    /\ NODE_ENV # "production"
    /\ Truthy(HUNGER_RUSH_USERNAME)
    /\ \E req \in ServerRequests :
          calls' = [calls EXCEPT ![c] = [@ EXCEPT !.pc = "launching", !.req = req]]
    /\ polled' = NoPoll
    /\ UNCHANGED <<folder, page, NODE_ENV, HUNGER_RUSH_USERNAME, sheet,
                   currentStatus, statusMessage, cachedResponses, request, df,
                   response, now, lastUpdated>>

\* The browser, its context and its page are there: the first status
\* message, then await page.goto(...)
BrowserLaunched(c) ==
    /\ calls[c].pc = "launching"
    /\ calls' = [calls EXCEPT ![c] =
                    [@ EXCEPT !.pc = "automating", !.step = 1, !.browser = TRUE]]
    /\ updateStatus(<<AutomationMsgs[1]>>)
    /\ polled' = NoPoll
    /\ UNCHANGED <<folder, page, NODE_ENV, HUNGER_RUSH_USERNAME, sheet,
                   cachedResponses, request, df, response, now>>

\* chromium.launch throws: the catch finds no browser and answers
LaunchThrows(c) ==
    /\ calls[c].pc = "launching"
    /\ \E message \in AutomationErrors :
          calls' = [calls EXCEPT ![c] =
                      [@ EXCEPT !.pc = "done",
                                !.response = automationErrorResponse(message)]]
    /\ polled' = NoPoll
    /\ UNCHANGED <<folder, page, NODE_ENV, HUNGER_RUSH_USERNAME, sheet,
                   currentStatus, statusMessage, cachedResponses, request, df,
                   response, now, lastUpdated>>

\* The awaits that follow a status message resolve: the next status message
AutomationStep(c) ==
    /\ calls[c].pc = "automating"
    /\ calls[c].step < Len(AutomationMsgs)
    /\ calls' = [calls EXCEPT ![c] = [@ EXCEPT !.step = @ + 1]]
    /\ updateStatus(<<AutomationMsgs[calls[c].step + 1]>>)
    /\ polled' = NoPoll
    /\ UNCHANGED <<folder, page, NODE_ENV, HUNGER_RUSH_USERNAME, sheet,
                   cachedResponses, request, df, response, now>>

\* AutomationThrows whose catch starts the automation over instead of answering
AutomationThrowsAndRetries(c) ==
    /\ calls[c].pc = "automating"
    /\ calls[c].step > 1
    /\ calls' = [calls EXCEPT ![c] = [@ EXCEPT !.step = 1]]
    /\ polled' = NoPoll
    /\ UNCHANGED <<folder, page, NODE_ENV, HUNGER_RUSH_USERNAME, sheet,
                   currentStatus, statusMessage, cachedResponses, request, df,
                   response, now, lastUpdated>>

\* An await of the automation throws: the catch, up to await browser.close()
AutomationThrows(c) ==
    /\ calls[c].pc = "automating"
    /\ \E message \in AutomationErrors :
          calls' = [calls EXCEPT ![c] =
                      [@ EXCEPT !.pc = "closing", !.step = 0,
                                !.message = message]]
    /\ polled' = NoPoll
    /\ UNCHANGED <<folder, page, NODE_ENV, HUNGER_RUSH_USERNAME, sheet,
                   currentStatus, statusMessage, cachedResponses, request, df,
                   response, now, lastUpdated>>

\* browser.close() has resolved, or has thrown and left the browser: the
\* catch answers with mockData and _error
BrowserClosed(c) ==
    /\ calls[c].pc = "closing"
    /\ \E open \in BOOLEAN :
          calls' = [calls EXCEPT ![c] =
                      [@ EXCEPT !.pc = "done", !.browser = open,
                                !.message = <<>>,
                                !.response =
                                   automationErrorResponse(calls[c].message)]]
    /\ polled' = NoPoll
    /\ UNCHANGED <<folder, page, NODE_ENV, HUNGER_RUSH_USERNAME, sheet,
                   currentStatus, statusMessage, cachedResponses, request, df,
                   response, now, lastUpdated>>

\* The inner try block from its result r on
CallAnswer(c, r) ==
    /\ calls' = [calls EXCEPT ![c] =
                    [@ EXCEPT !.pc = "done", !.step = 0,
                              !.response =
                                 IF r.threw THEN processErrorResponse(r.message)
                                 ELSE summaryResponse(r.summary)]]
    /\ updateStatus(r.msgs)
    /\ cachedResponses' =
          IF r.threw THEN cachedResponses
          ELSE cacheTrim(cacheSet(cachedResponses, cacheKeyOf(calls[c].req),
                                  r.summary))

\* The download wait is over: the inner try block, which has no await
CallProcess(c) ==
    /\ calls[c].pc = "automating"
    /\ calls[c].step = Len(AutomationMsgs)
    /\ CallAnswer(c, processSheet(sheet, calls[c].req))
    /\ polled' = NoPoll
    /\ UNCHANGED <<folder, page, NODE_ENV, HUNGER_RUSH_USERNAME, sheet,
                   request, df, response, now>>

\* GET that puts the status back to 'idle' once it has reported it
GETThenIdle ==
    /\ polled' = [status |-> 200,
                  body |-> [status |-> currentStatus, message |-> statusMessage,
                            lastUpdated |-> lastUpdated]]
    /\ currentStatus' = "idle"
    /\ UNCHANGED <<folder, page, NODE_ENV, HUNGER_RUSH_USERNAME, sheet,
                   statusMessage, cachedResponses, request, df, response, now,
                   lastUpdated, calls>>

\* GET: the status variables as they are
GET ==
    /\ polled' = [status |-> 200,
                  body |-> [status |-> currentStatus, message |-> statusMessage,
                            lastUpdated |-> lastUpdated]]
    /\ UNCHANGED <<folder, page, NODE_ENV, HUNGER_RUSH_USERNAME, sheet,
                   currentStatus, statusMessage, cachedResponses, request, df,
                   response, now, lastUpdated, calls>>

\* No other invocation is between its arrival and its response
RunsAlone(c) == \A d \in Calls \ {c} : calls[d].pc \in {"idle", "done"}

\* The steps of invocation c that follow its arrival
CallStep(c) ==
    \/ BrowserLaunched(c)
    \/ LaunchThrows(c)
    \/ AutomationStep(c)
    \/ AutomationThrows(c)
    \/ BrowserClosed(c)
    \/ CallProcess(c)

NextOneAtATime ==
    \/ Tick
    \/ Download
    \/ GET
    \/ \E c \in Calls : RunsAlone(c) /\ CallProduction(c)
    \/ \E c \in Calls : RunsAlone(c) /\ CallNotConfigured(c)
    \/ \E c \in Calls : RunsAlone(c) /\ CallLaunch(c)
    \/ \E c \in Calls : CallStep(c)

NextInterleaved ==
    \/ Tick
    \/ Download
    \/ GET
    \/ \E c \in Calls : CallProduction(c) \/ CallNotConfigured(c) \/ CallLaunch(c)
    \/ \E c \in Calls : CallStep(c)

\* The client sends a request when the one before has been answered
SpecOneAtATime == Init /\ [][NextOneAtATime]_vars
\* Requests arrive at any time
SpecInterleaved == Init /\ [][NextInterleaved]_vars

\* The invocations alone, without status queries and the clock. Every await
\* of an invocation resolves or throws: the waits on the portal carry a
\* timeout (goto 60000, waitForSelector 20000 or 30000, waitForLoadState
\* 30000, waitForTimeout), so an invocation that can step does step
NextPost ==
    \/ Download
    \/ \E c \in Calls : RunsAlone(c) /\ CallProduction(c)
    \/ \E c \in Calls : RunsAlone(c) /\ CallNotConfigured(c)
    \/ \E c \in Calls : RunsAlone(c) /\ CallLaunch(c)
    \/ \E c \in Calls : CallStep(c)

SpecPostFair ==
    /\ Init
    /\ [][NextPost]_vars
    /\ \A c \in Calls : WF_vars(CallStep(c))

\* ------------------------------------------------------------------------
\* The client page: handleSubmit, the polling effect and pollStatus, against
\* the server's POST and GET

MaxPolls == 1

\* The effect of [isLoading, pollIntervalId, pollStatus], run until the state
\* of the page p settles: it sets the interval when loading starts and clears
\* it when loading is over
PollingEffect(p) ==
    IF p.isLoading /\ p.pollIntervalId = 0
    THEN [p EXCEPT !.timer = [id |-> p.timers + 1, isLoading |-> p.isLoading,
                               pollIntervalId |-> p.pollIntervalId],
                   !.timers = p.timers + 1,
                   !.pollIntervalId = p.timers + 1]
    ELSE IF ~p.isLoading /\ p.pollIntervalId # 0
    THEN [p EXCEPT !.timer = IF p.timer.id = p.pollIntervalId
                             THEN NoTimer ELSE p.timer,
                   !.pollIntervalId = 0]
    ELSE p

\* handleSubmit up to await fetch(..., {method: 'POST'}): startLoading(),
\* setStatus('navigating')
Submit ==
    /\ ~page.isLoading
    /\ page.submits = page.handled
    /\ page.submits < MaxCalls
    /\ page' = PollingEffect([page EXCEPT !.isLoading = TRUE,
                                          !.status = "navigating",
                                          !.submits = @ + 1,
                                          !.final = FALSE])
    /\ polled' = NoPoll
    /\ UNCHANGED <<folder, NODE_ENV, HUNGER_RUSH_USERNAME, sheet,
                   currentStatus, statusMessage, cachedResponses, request, df,
                   response, now, lastUpdated, calls>>

\* The POST of invocation c has been sent by the page
Sent(c) == c <= page.submits

\* handleSubmit from the response of its POST on: 'error' when the response
\* is not ok or carries _error, 'completed' otherwise; finally stopLoading()
PostResponse ==
    /\ page.handled < page.submits
    /\ calls[page.submits].pc = "done"
    /\ LET resp == calls[page.submits].response
           st   == IF resp.status # 200 \/ Truthy(resp._error)
                   THEN "error" ELSE "completed"
       IN  page' = PollingEffect([page EXCEPT !.status = st,
                                              !.isLoading = FALSE,
                                              !.handled = @ + 1])
    /\ polled' = NoPoll
    /\ UNCHANGED <<folder, NODE_ENV, HUNGER_RUSH_USERNAME, sheet,
                   currentStatus, statusMessage, cachedResponses, request, df,
                   response, now, lastUpdated, calls>>

\* The interval fires: pollStatus of the interval's render fetches the status
\* unless its isLoading is false
PollFires ==
    /\ page.timer.id # 0
    /\ page.timer.isLoading
    /\ Cardinality(page.polls) < MaxPolls

\* The response of the GET leaves the server for the page
PollSent ==
    /\ polled.status # 0
    /\ page' = [page EXCEPT !.polls =
                   @ \cup {[ok |-> polled.status = 200,
                            status |-> polled.body.status,
                            pollIntervalId |-> page.timer.pollIntervalId]}]
    /\ polled' = NoPoll
    /\ UNCHANGED <<folder, NODE_ENV, HUNGER_RUSH_USERNAME, sheet,
                   currentStatus, statusMessage, cachedResponses, request, df,
                   response, now, lastUpdated, calls>>

\* pollStatus from the response of its GET on
PollResponse ==
    \E poll \in page.polls :
        LET shown == IF poll.ok /\ poll.status # "" /\ poll.status # "idle"
                     THEN [page EXCEPT !.status = poll.status] ELSE page
            stops == poll.ok /\ poll.status \in {"completed", "error"}
            after == IF stops /\ poll.pollIntervalId # 0
                     THEN [shown EXCEPT
                             !.timer = IF shown.timer.id = poll.pollIntervalId
                                       THEN NoTimer ELSE shown.timer,
                             !.pollIntervalId = 0]
                     ELSE shown
        IN  /\ page' = PollingEffect([after EXCEPT !.polls = @ \ {poll},
                                                   !.final = @ \/ stops])
            /\ polled' = NoPoll
            /\ UNCHANGED <<folder, NODE_ENV, HUNGER_RUSH_USERNAME, sheet,
                           currentStatus, statusMessage, cachedResponses,
                           request, df, response, now, lastUpdated, calls>>

NextClient ==
    \/ Submit
    \/ \E c \in Calls : Sent(c) /\ CallProduction(c)
    \/ \E c \in Calls : Sent(c) /\ CallNotConfigured(c)
    \/ \E c \in Calls : Sent(c) /\ CallLaunch(c)
    \/ \E c \in Calls : CallStep(c)
    \/ Download
    \/ PollFires /\ GET
    \/ PollSent
    \/ PollResponse
    \/ PostResponse

\* One page against the server
SpecClient == Init /\ [][NextClient]_vars

\* ------------------------------------------------------------------------
\* The search for the downloaded report in the four fetch variants. A
\* directory is the sequence of its file names in the order the files were
\* written: the index of a name is its ctime and its mtime

MaxFiles == 3

\* The characters of the file names in the order of their UTF-16 code units
CodeUnitOrder ==
    <<"-", ".", "0", "1", "2", "3", "4", "5", "6", "7", "8", "9">>
       \o UpperChars \o LowerChars

CodeUnit(c) == CHOOSE i \in 1..Len(CodeUnitOrder) : CodeUnitOrder[i] = c

\* a < b as Array.prototype.sort() without a comparator orders strings
StrLt(a, b) ==
    \E k \in 1..(Len(a) + 1) :
        /\ \A j \in 1..(k - 1) : j <= Len(b) /\ a[j] = b[j]
        /\ k <= Len(b)
        /\ k > Len(a) \/ CodeUnit(a[k]) < CodeUnit(b[k])

startsWith(s, p) == OccursAt(s, 1, p)
endsWith(s, p) == OccursAt(s, Len(s) - Len(p) + 1, p)

OrderDetails ==
    <<"o", "r", "d", "e", "r", "-", "d", "e", "t", "a", "i", "l", "s">>
DotXlsx == <<".", "x", "l", "s", "x">>

\* file.includes("order-details") && file.endsWith(".xlsx")
includesOrderDetails(file) ==
    includes(file, OrderDetails) /\ endsWith(file, DotXlsx)

\* f.startsWith("order-details") && f.endsWith(".xlsx")
startsWithOrderDetails(file) ==
    startsWith(file, OrderDetails) /\ endsWith(file, DotXlsx)

\* file.match(/^order-details-.*\.xlsx$/i)
matchesOrderDetails(file) ==
    /\ startsWith(toLowerCase(file), OrderDetails \o <<"-">>)
    /\ endsWith(toLowerCase(file), DotXlsx)
    /\ Len(file) >= Len(OrderDetails) + 1 + Len(DotXlsx)

\* The indices of the files of the directory that the test keeps
Kept(files, keeps(_)) == {i \in 1..Len(files) : keeps(files[i])}

\* The first and the last name of .sort(), the name of the greatest time of
\* .sort((a, b) => time(b) - time(a))[0]; <<>> when no file is kept
FirstSorted(files, kept) ==
    IF kept = {} THEN <<>>
    ELSE files[CHOOSE i \in kept :
                 \A j \in kept \ {i} : StrLt(files[i], files[j])]

LastSorted(files, kept) ==
    IF kept = {} THEN <<>>
    ELSE files[CHOOSE i \in kept :
                 \A j \in kept \ {i} : StrLt(files[j], files[i])]

Newest(files, kept) ==
    IF kept = {} THEN <<>>
    ELSE files[CHOOSE i \in kept : \A j \in kept : j <= i]

\* server.js, first variant:
\* files.filter(...).sort()[0]
excelFileOfReport(files) ==
    FirstSorted(files, Kept(files, includesOrderDetails))

\* server.js, second variant:
\* files.filter(...).sort((a, b) => mtimeMs(b) - mtimeMs(a))[0]
excelFileOfReportByMtime(files) ==
    Newest(files, Kept(files, startsWithOrderDetails))

\* /summary: files.filter(...).sort().pop()
excelFileOfSummary(files) ==
    LastSorted(files, Kept(files, includesOrderDetails))

\* getLatestMatchingFile of the route: sort by ctimeMs, newest first, [0]
getLatestMatchingFile(files) ==
    Newest(files, Kept(files, matchesOrderDetails))

\* The names the portal and the handlers write into the directory
FileNames ==
    { OrderDetails \o <<"-", "0", "3", "2", "6">> \o DotXlsx,
      OrderDetails \o <<"-", "0", "3", "2", "7">> \o DotXlsx,
      OrderDetails \o <<"-", "0", "4", "0", "1">> \o DotXlsx,
      <<"d", "e", "b", "u", "g", ".", "x", "l", "s", "x">> }

\* A file is written
FileWritten ==
    /\ Len(folder.files) < MaxFiles
    /\ \E file \in FileNames :
          /\ \A i \in 1..Len(folder.files) : folder.files[i] # file
          /\ folder' = [files |-> Append(folder.files, file),
                        variant |-> "", excelFile |-> <<>>]
    /\ UNCHANGED <<NODE_ENV, HUNGER_RUSH_USERNAME, sheet, currentStatus,
                   statusMessage, cachedResponses, request, df, response, now,
                   lastUpdated, calls, polled, page>>

\* One variant looks for the report after its download wait
Searches(variant, excelFile) ==
    /\ folder' = [folder EXCEPT !.variant = variant, !.excelFile = excelFile]
    /\ UNCHANGED <<NODE_ENV, HUNGER_RUSH_USERNAME, sheet, currentStatus,
                   statusMessage, cachedResponses, request, df, response, now,
                   lastUpdated, calls, polled, page>>

ReportSearches == Searches("report", excelFileOfReport(folder.files))
ReportByMtimeSearches ==
    Searches("report-mtime", excelFileOfReportByMtime(folder.files))
SummarySearches == Searches("summary", excelFileOfSummary(folder.files))
RouteSearches == Searches("route", getLatestMatchingFile(folder.files))

NextFiles ==
    \/ FileWritten
    \/ ReportSearches
    \/ ReportByMtimeSearches
    \/ SummarySearches
    \/ RouteSearches

SpecFiles == Init /\ [][NextFiles]_vars

\* ------------------------------------------------------------------------
\* Every time of day: a sheet of one row whose Time is any hour 1..12 and
\* minute 0..59 with AM or PM in either case, asked for with the window of
\* exactly that minute and with a window of two hours

DigitChars == <<"0", "1", "2", "3", "4", "5", "6", "7", "8", "9">>
TwoDigits(k) == <<DigitChars[(k \div 10) + 1], DigitChars[(k % 10) + 1]>>
Decimal(k) == IF k < 10 THEN <<DigitChars[k + 1]>> ELSE TwoDigits(k)

Markers == {<<"A", "M">>, <<"P", "M">>, <<"a", "m">>, <<"p", "m">>}

\* The Time cell as the sheet shows it, "10:59 AM"
ClockText(h, m, marker) == Decimal(h) \o <<":">> \o TwoDigits(m) \o <<" ">> \o marker

\* The hour of the 24-hour clock that the page puts into its request for the
\* hour h of the 12-hour clock
HourOfDay(h, marker) ==
    IF toUpperCase(marker) = <<"A", "M">>
    THEN (IF h = 12 THEN 0 ELSE h)
    ELSE (IF h = 12 THEN 12 ELSE h + 12)

\* One row at the time h:mm marker
ExportClockRow ==
    /\ Automating
    /\ sheet.rows = <<>>
    /\ \E h \in 1..12, m \in 0..59, marker \in Markers :
          sheet' = [exists |-> TRUE,
                    rows |-> <<PickupCash(Str(D_Mar26),
                                          Str(ClockText(h, m, marker)))>>,
                    by |-> 0]
    /\ UNCHANGED <<folder, page, NODE_ENV, HUNGER_RUSH_USERNAME,
                   currentStatus, statusMessage, cachedResponses, request, df,
                   response, now, lastUpdated, calls, polled>>

\* The requests for the minute of the row of the sheet, and for 09:00 to 11:00
ClockRequests ==
    {Req(Day26, H0900, Day26, H1100)} \cup
    { Req(Day26, TwoDigits(HourOfDay(h, marker)) \o <<":">> \o TwoDigits(m),
          Day26, TwoDigits(HourOfDay(h, marker)) \o <<":">> \o TwoDigits(m)) :
        <<h, m, marker>> \in
            { t \in (1..12) \X (0..59) \X Markers :
                /\ Len(sheet.rows) = 1
                /\ sheet.rows[1].Time.s = ClockText(t[1], t[2], t[3]) } }

POSTClock ==
    /\ response = NoResponse
    /\ NODE_ENV # "production"
    /\ Truthy(HUNGER_RUSH_USERNAME)
    /\ \E req \in ClockRequests : POSTAnswer(req, processSheet(sheet, req))
    /\ UNCHANGED <<folder, page, NODE_ENV, HUNGER_RUSH_USERNAME, sheet, now,
                   calls, polled>>

NextTimes == ExportClockRow \/ POSTClock

SpecTimes == Init /\ [][NextTimes]_vars

\* ------------------------------------------------------------------------
\* The cache over many requests: a server outside production that answers
\* one request after the other, each with its own window or with one asked
\* before

MaxRequests == 22

\* The requests the client can build from the model's days and times, in a
\* fixed order
RequestNo(k) ==
    LET i == k - 1
        days == <<Day26, Day27, Day28>>
        times == <<H0900, H0930, H1100, H1230>>
    IN  Req(days[((i \div 12) % 3) + 1], times[((i \div 36) % 4) + 1],
            days[((i \div 4) % 3) + 1], times[(i % 4) + 1])

\* The number of the request whose key this is
KeyNo(key) == CHOOSE k \in 1..MaxRequests : cacheKeyOf(RequestNo(k)) = key

\* The highest request number that has been cached
CachedUpTo(cache) ==
    IF cache = <<>> THEN 0
    ELSE CHOOSE k \in 1..MaxRequests :
            /\ \E i \in 1..Len(cache) : KeyNo(cache[i].key) = k
            /\ \A i \in 1..Len(cache) : KeyNo(cache[i].key) <= k

\* The next request: one not asked before, the first one again, or the one
\* whose entry is the oldest of the cache
NextRequests ==
    { RequestNo(k) : k \in { j \in {1, CachedUpTo(cachedResponses) + 1} :
                               j <= MaxRequests } }
    \cup { RequestNo(KeyNo(cachedResponses[i].key)) :
              i \in {j \in {1} : j <= Len(cachedResponses)} }

\* The sheet of the download folder, as the first request finds it
ExportCacheRow == ExportRowOf({PickupCash(Str(D_Mar26), Str(T_1000))})

\* POST outside production, from the download wait on
POSTAgain ==
    /\ NODE_ENV # "production"
    /\ Truthy(HUNGER_RUSH_USERNAME)
    /\ \E req \in NextRequests : POSTAnswer(req, processSheet(sheet, req))
    /\ UNCHANGED <<folder, page, NODE_ENV, HUNGER_RUSH_USERNAME, sheet, now,
                   calls, polled>>

NextCache == ExportSheet \/ ExportCacheRow \/ POSTAgain

\* Requests one after the other, more of them than the cache holds
SpecCache == Init /\ [][NextCache]_vars

\* ------------------------------------------------------------------------
\* What the claims are stated against: the times, windows and amounts of
\* the model's values as a reader takes them, written down value by value

\* The 24-hour (hour, minute) pair of a time that can be parsed
RefTimeOf(tm) ==
    CASE tm = T_0859 -> <<8, 59>>  [] tm = T_0900 -> <<9, 0>>
      [] tm = T_0929 -> <<9, 29>>  [] tm = T_0930 -> <<9, 30>>
      [] tm = T_1000 -> <<10, 0>>
      [] tm = T_1100 -> <<11, 0>>  [] tm = T_1101 -> <<11, 1>>
      [] tm = T_0030 -> <<0, 30>>  [] tm = T_1230 -> <<12, 30>>
      [] tm = T_1315 -> <<13, 15>>

RefHourMinute(hhmm) ==
    CASE hhmm = H0900 -> <<9, 0>>  [] hhmm = H0930 -> <<9, 30>>
      [] hhmm = H1100 -> <<11, 0>> [] hhmm = H1230 -> <<12, 30>>

Days == {Day26, Day27, Day28}
HourMinutes == {H0900, H0930, H1100, H1230}

\* The request is one the client builds from a day and a time of day
WellFormed(req) ==
    \E d1 \in Days, d2 \in Days, t1 \in HourMinutes, t2 \in HourMinutes :
        req = Req(d1, t1, d2, t2)

\* The time of day of a date-time YYYY-MM-DDTHH:MM:SS.sssZ
ClockOf(dateTime) == SubSeq(dateTime, 12, 16)

RefStart(req) == RefHourMinute(ClockOf(req.startDateTime))
RefEnd(req) == RefHourMinute(ClockOf(req.endDateTime))

\* (h, m) pairs in lexicographic order
LexLe(a, b) == a[1] < b[1] \/ (a[1] = b[1] /\ a[2] <= b[2])

\* The row's Time can be parsed, and the row's Date is a non-empty string
ParseableTime(row) == row.Time.t = "string" /\ row.Time.s \in GoodTimes
TextDate(row) == row.Date.t = "string" /\ row.Date.s # <<>>

\* The row's time of day lies in the inclusive window of the request
InWindow(row, req) ==
    /\ LexLe(RefStart(req), RefTimeOf(row.Time.s))
    /\ LexLe(RefTimeOf(row.Time.s), RefEnd(req))

\* The row is one of const filteredData
Included(row) == \E k \in 1..Len(df) : df[k] = row

\* The handler answered with a Summary it computed from the sheet
Computed ==
    /\ NODE_ENV # "production"
    /\ response.status = 200
    /\ response._error = Undefined

\* ------------------------------------------------------------------------
\* C1

\* C1 as stated: every row with a parseable Time is in filteredData if and
\* only if its (hour, minute) lies in the inclusive window. It fails for a
\* row in the window whose Date is missing, empty or not a string.
C1_AsStated ==
    Computed =>
        \A i \in 1..Len(sheet.rows) :
            ParseableTime(sheet.rows[i]) =>
                (Included(sheet.rows[i]) <=> InWindow(sheet.rows[i], request))

\* C1 (amended): a row with a non-empty string Date and a parseable Time is
\* in filteredData if and only if its 24-hour (hour, minute) pair is >= the
\* window's start and <= the window's end in lexicographic order, both ends
\* inclusive.
C1_InclusiveWindow ==
    Computed =>
        \A i \in 1..Len(sheet.rows) :
            (TextDate(sheet.rows[i]) /\ ParseableTime(sheet.rows[i])) =>
                (Included(sheet.rows[i]) <=> InWindow(sheet.rows[i], request))

\* C1 witness: window 09:00-11:00, the row at 9:00 AM is kept and the row
\* at 8:59 AM is not.
C1_Witness ==
    /\ Computed
    /\ request = Req(Day26, H0900, Day26, H1100)
    /\ sheet.rows = <<PickupCash(Str(D_Mar26), Str(T_0859)),
                      PickupCash(Str(D_Mar26), Str(T_0900))>>
    /\ df = <<PickupCash(Str(D_Mar26), Str(T_0900))>>

\* ------------------------------------------------------------------------
\* C2

\* The rows of the sheet that satisfy Keep
CountRows(Keep(_)) == Cardinality({i \in 1..Len(sheet.rows) : Keep(sheet.rows[i])})

\* C2 as stated: totalOrders is the number of rows whose time of day lies
\* in the window, whatever the row's Date. It fails for a row in the window
\* whose Date is missing, empty or not a string.
C2_AsStated ==
    Computed =>
        LET keep(row) == ParseableTime(row) /\ InWindow(row, request)
        IN  response.summary.totalOrders = CountRows(keep)

\* C2 (amended): totalOrders is the number of rows with a non-empty string
\* Date whose parsed time of day lies in the inclusive window, whatever that
\* date is and whatever the row's channel and payment (rows of neither
\* class are counted).
C2_TotalOrders ==
    Computed =>
        LET keep(row) ==
                TextDate(row) /\ ParseableTime(row) /\ InWindow(row, request)
        IN  response.summary.totalOrders = CountRows(keep)

\* C2 witness: a row of another day and a row that is neither in-store nor
\* delivery, neither cash nor card, both counted.
C2_Witness ==
    /\ Computed
    /\ sheet.rows = <<DineInGift(Str(D_Mar26), Str(T_1000)),
                      PickupCash(Str(D_Mar27), Str(T_1000))>>
    /\ request = Req(Day26, H0900, Day26, H1100)
    /\ response.summary.totalOrders = 2

\* ------------------------------------------------------------------------
\* C8

\* The row's Date or Time is missing, empty or not a string, or its Time
\* cannot be parsed
Malformed(row) ==
    \/ ~TextDate(row)
    \/ row.Time.t # "string"
    \/ row.Time.s \in {<<>>, T_garbage, T_24h}

RemoveAt(seq, i) == SubSeq(seq, 1, i - 1) \o SubSeq(seq, i + 1, Len(seq))

\* The handler has answered a well-formed request over a downloaded sheet
AnsweredOverSheet ==
    /\ NODE_ENV # "production"
    /\ Truthy(HUNGER_RUSH_USERNAME)
    /\ response # NoResponse
    /\ sheet.exists
    /\ WellFormed(request)

\* C8: a malformed row does not stop the handler, is not in filteredData,
\* and the Summary is the one of the sheet without that row.
C8_MalformedRowSkipped ==
    AnsweredOverSheet =>
        /\ Computed
        /\ \A i \in 1..Len(sheet.rows) :
              Malformed(sheet.rows[i]) =>
                  /\ ~Included(sheet.rows[i])
                  /\ response.summary =
                        processSheet([exists |-> TRUE,
                                      rows |-> RemoveAt(sheet.rows, i)],
                                     request).summary

\* C8 witness: a row with Time "garbage" next to a row in the window; one
\* order is counted.
C8_Witness ==
    /\ Computed
    /\ sheet.rows = <<PickupCash(Str(D_Mar26), Str(T_1000)),
                      PickupCash(Str(D_Mar26), Str(T_garbage))>>
    /\ request = Req(Day26, H0900, Day26, H1100)
    /\ response.summary.totalOrders = 1
    /\ df = <<PickupCash(Str(D_Mar26), Str(T_1000))>>

\* ------------------------------------------------------------------------
\* C10

\* The requests with the hours and minutes of req that start on any day and
\* end on that day or on the 28th
SameClockRequests(req) ==
    UNION { { Req(d1, ClockOf(req.startDateTime), d2, ClockOf(req.endDateTime)) :
                  d2 \in {d1, Day28} } : d1 \in Days }

\* The sheet with the Date of row i set to d
Redated(i, d) ==
    [exists |-> TRUE,
     rows |-> [k \in 1..Len(sheet.rows) |->
                 IF k = i THEN [sheet.rows[k] EXCEPT !.Date = d]
                 ELSE sheet.rows[k]]]

\* The Summary is the same for the same clock times on other days
SameSummaryOnOtherDays ==
    \A q \in SameClockRequests(request) :
        processSheet(sheet, q).summary = response.summary

\* C10 as stated: the Summary does not depend on the days of the request,
\* nor on the rows' Date values. It fails when a row's date is held as a
\* serial number instead of text: the row is dropped.
C10_AsStated ==
    Computed =>
        /\ SameSummaryOnOtherDays
        /\ \A i \in 1..Len(sheet.rows) :
              \A d \in {Str(D_Mar26), Str(D_Mar27), SerialDate} :
                  (/\ TextDate(sheet.rows[i]) \/ sheet.rows[i].Date = SerialDate
                   /\ d # sheet.rows[i].Date) =>
                      processSheet(Redated(i, d), request).summary
                          = response.summary

\* C10 (amended): two requests with the same hours and minutes on different
\* days give the same Summary over the same rows; two row sets that differ
\* only in the text of rows' non-empty string Dates give the same Summary.
C10_DateIndependent ==
    Computed =>
        /\ SameSummaryOnOtherDays
        /\ \A i \in 1..Len(sheet.rows) :
              \A d \in {Str(D_Mar26), Str(D_Mar27)} :
                  (TextDate(sheet.rows[i]) /\ d # sheet.rows[i].Date) =>
                      processSheet(Redated(i, d), request).summary
                          = response.summary

\* C10 witness: a request from the 27th to the 28th counts the rows of the
\* 26th and of the 27th that lie in 09:00-11:00.
C10_Witness ==
    /\ Computed
    /\ request = Req(Day27, H0900, Day28, H1100)
    /\ sheet.rows = <<PickupCash(Str(D_Mar26), Str(T_1000)),
                      PickupCash(Str(D_Mar27), Str(T_1000))>>
    /\ response.summary.totalOrders = 2

\* ------------------------------------------------------------------------
\* Reference amounts, classes and rounding for the claims about the sums

\* The amount of a cell: its number, 0 when missing or not numeric
RefAmount(x) ==
    CASE x.t = "number" -> x.n
      [] x = Str(A_7_5) -> 7500
      [] x = Str(A_1_25) -> 1250
      [] OTHER -> 0

RECURSIVE RefSeqSum(_)
RefSeqSum(ints) == IF ints = <<>> THEN 0 ELSE Head(ints) + RefSeqSum(Tail(ints))

RefSumTotal(rows) == RefSeqSum([k \in 1..Len(rows) |-> RefAmount(rows[k].Total)])
RefSumTips(rows) == RefSeqSum([k \in 1..Len(rows) |-> RefAmount(rows[k].Tips)])

\* num / den mills rounded to the nearest hundredth (10 mills), a tie going
\* away from zero
RefRound(num, den) ==
    LET mag == IF num < 0 THEN 0 - num ELSE num
        lo  == 10 * (mag \div (10 * den))
        hi  == lo + 10
        r   == IF mag - lo * den < hi * den - mag THEN lo ELSE hi
    IN  IF num < 0 THEN 0 - r ELSE r

\* The channel of a Type: in-store synonyms first, then delivery, without
\* regard to letter case
RefChannel(type) ==
    CASE type \in {Str(Ty_Pickup), Str(Ty_PICKUP), Str(Ty_WebPickUp),
                   Str(Ty_ToGo), Str(Ty_Both)} -> "IN_STORE"
      [] type \in {Str(Ty_Delivery), Str(Ty_DELIVERY)} -> "DELIVERY"
      [] OTHER -> "OTHER"

\* The payment class: cash first, then the card names, without regard to
\* letter case
RefPayment(payment) ==
    CASE payment \in {Str(P_Cash), Str(P_CASH), Str(P_Split)} -> "CASH"
      [] payment \in {Str(P_Visa), Str(P_visa), Str(P_MC), Str(P_AMEX)}
           -> "CREDIT_CARD"
      [] OTHER -> "OTHER"

RefClassRows(rows, payment, channel) ==
    LET keep(row) == RefPayment(row.Payment) = payment
                       /\ RefChannel(row.Type) = channel
    IN  SelectSeq(rows, keep)

\* ------------------------------------------------------------------------
\* C3

\* C3: averageOrderValue is the sum of Total over filteredData divided by
\* totalOrders (as every field, to two decimals) when there is an order, and
\* 0 when filteredData is empty; totalOrders is the length of filteredData.
C3_AverageOrderValue ==
    Computed =>
        /\ response.summary.totalOrders = Len(df)
        /\ response.summary.averageOrderValue =
              IF Len(df) = 0 THEN 0 ELSE RefRound(RefSumTotal(df), Len(df))

\* C3 witness: a sheet whose only order lies outside the window; no order,
\* average 0.
C3_Witness ==
    /\ Computed
    /\ Len(sheet.rows) = 1
    /\ sheet.rows[1].Time = Str(T_0859)
    /\ request = Req(Day26, H0900, Day26, H1100)
    /\ df = <<>>
    /\ response.summary.totalOrders = 0
    /\ response.summary.averageOrderValue = 0

\* ------------------------------------------------------------------------
\* C4

\* C4: each category field is the sum, over the rows of filteredData of its
\* payment class and channel, of Total (cash) or Tips (card), a missing or
\* non-numeric amount counting 0.
C4_CategorySums ==
    Computed =>
        /\ response.summary.cashSalesInStore =
              RefRound(RefSumTotal(RefClassRows(df, "CASH", "IN_STORE")), 1)
        /\ response.summary.cashSalesDelivery =
              RefRound(RefSumTotal(RefClassRows(df, "CASH", "DELIVERY")), 1)
        /\ response.summary.creditCardTipsInStore =
              RefRound(RefSumTips(RefClassRows(df, "CREDIT_CARD", "IN_STORE")), 1)
        /\ response.summary.creditCardTipsDelivery =
              RefRound(RefSumTips(RefClassRows(df, "CREDIT_CARD", "DELIVERY")), 1)

\* ------------------------------------------------------------------------
\* C5

\* The sheet with the Type and Payment of row i put through f
Recased(i, f(_)) ==
    LET g(x) == IF x.t = "string" THEN Str(f(x.s)) ELSE x
    IN  [exists |-> TRUE,
         rows |-> [k \in 1..Len(sheet.rows) |->
                     IF k = i
                     THEN [sheet.rows[k] EXCEPT !.Type = g(@), !.Payment = g(@)]
                     ELSE sheet.rows[k]]]

\* C5: changing only the letter case of a row's Type and Payment leaves the
\* Summary unchanged.
C5_CaseInsensitive ==
    Computed =>
        \A i \in 1..Len(sheet.rows) :
            /\ processSheet(Recased(i, toUpperCase), request).summary
                  = response.summary
            /\ processSheet(Recased(i, toLowerCase), request).summary
                  = response.summary

\* ------------------------------------------------------------------------
\* C6

\* The category sums that row is added to
BucketsOf(row) ==
    {b \in {"cashSalesInStore", "cashSalesDelivery",
            "creditCardTipsInStore", "creditCardTipsDelivery"} :
        CASE b = "cashSalesInStore" -> cashInStoreRows(<<row>>) # <<>>
          [] b = "cashSalesDelivery" -> cashDeliveryRows(<<row>>) # <<>>
          [] b = "creditCardTipsInStore" -> cardInStoreRows(<<row>>) # <<>>
          [] b = "creditCardTipsDelivery" -> cardDeliveryRows(<<row>>) # <<>>}

\* C6: every row of filteredData is added to at most one of the four sums.
C6_AtMostOneBucket ==
    Computed => \A k \in 1..Len(df) : Cardinality(BucketsOf(df[k])) <= 1

\* ------------------------------------------------------------------------
\* C7

\* C7: the four category fields together do not exceed the sum of Total
\* over filteredData.
C7_CategoriesWithinSales ==
    Computed =>
        response.summary.cashSalesInStore + response.summary.cashSalesDelivery
          + response.summary.creditCardTipsInStore
          + response.summary.creditCardTipsDelivery
            <= RefSumTotal(df)

\* ------------------------------------------------------------------------
\* C9

\* C9: each monetary field is the exact sum (or quotient) of the unrounded
\* amounts of its rows, rounded to two decimals once.
C9_RoundedOnce ==
    Computed =>
        /\ response.summary.cashSalesInStore =
              RefRound(RefSumTotal(cashInStoreRows(df)), 1)
        /\ response.summary.cashSalesDelivery =
              RefRound(RefSumTotal(cashDeliveryRows(df)), 1)
        /\ response.summary.creditCardTipsInStore =
              RefRound(RefSumTips(cardInStoreRows(df)), 1)
        /\ response.summary.creditCardTipsDelivery =
              RefRound(RefSumTips(cardDeliveryRows(df)), 1)
        /\ Len(df) > 0 =>
              response.summary.averageOrderValue
                  = RefRound(RefSumTotal(df), Len(df))

\* C9 witness: cash pick-ups of 0.125 and 10.125 give 10.25; rounded row by
\* row they would give 0.13 + 10.13 = 10.26.
C9_Witness ==
    /\ Computed
    /\ Len(df) = 2
    /\ df[1].Total = Num(125) /\ df[2].Total = Num(10125)
    /\ cashInStoreRows(df) = df
    /\ response.summary.cashSalesInStore = 10250

\* ------------------------------------------------------------------------
\* C11

\* Invocation c ends on this step after chromium.launch or an await of the
\* automation has thrown, or with no sheet to find, or with a request whose
\* times the inner try block cannot read
EndsInFailure(c) ==
    /\ calls'[c].pc = "done"
    /\ \/ calls[c].pc \in {"launching", "closing"}
       \/ /\ calls[c].pc = "automating"
          /\ ~sheet.exists \/ ~WellFormed(calls[c].req)

\* Status 200, the six Summary fields of the fallback dataset and a
\* non-empty _error
IsFallbackWithError(resp) ==
    /\ resp.status = 200
    /\ resp.hasSummary
    /\ resp.summary = [cashSalesInStore |-> 256750, cashSalesDelivery |-> 124500,
                       creditCardTipsInStore |-> 45250,
                       creditCardTipsDelivery |-> 32800,
                       totalOrders |-> 24, averageOrderValue |-> 42330]
    /\ resp._error.t = "string"
    /\ resp._error.s # <<>>

LastCallFailed ==
    \E c \in Calls :
        /\ calls[c].pc = "done"
        /\ calls[c].response._error # Undefined
        /\ \A d \in Calls : d > c => calls[d].pc = "idle"

\* C12: once a POST has returned a fallback response with _error, a status
\* query that follows the failure answers status 'error'.
C12_ErrorStage ==
    (LastCallFailed /\ polled.status = 200) => polled.body.status = "error"

\* ------------------------------------------------------------------------
\* C13

\* Invocation c has been answered with an error, without a Summary or
\* fallback data, and no browser was launched for it
AnsweredWithErrorOnly(c) ==
    /\ calls[c].pc = "done"
    /\ ~calls[c].browser
    /\ ~calls[c].response.hasSummary
    /\ calls[c].response.error # Undefined
    /\ calls[c].response._note = Undefined
    /\ calls[c].response._error = Undefined

\* C13 as stated: without the username a POST is answered at once with an
\* error only, in every run mode. It fails in production, where the answer
\* is the cached or the mock Summary.
C13_AsStated ==
    \A c \in Calls :
        (calls[c].pc # "idle" /\ ~Truthy(HUNGER_RUSH_USERNAME)) =>
            AnsweredWithErrorOnly(c)

\* C13 (amended): outside production, a POST without the username is
\* answered at once with status 500 and an error only, before any browser is
\* launched.
C13_NotConfigured ==
    \A c \in Calls :
        (/\ calls[c].pc # "idle"
         /\ ~Truthy(HUNGER_RUSH_USERNAME)
         /\ NODE_ENV # "production") =>
            AnsweredWithErrorOnly(c) /\ calls[c].response.status = 500

\* C13 witness: development without a username, two requests, both answered
\* with status 500 and the error text.
C13_Witness ==
    /\ NODE_ENV = "development"
    /\ HUNGER_RUSH_USERNAME = Undefined
    /\ \A c \in Calls :
          /\ AnsweredWithErrorOnly(c)
          /\ calls[c].response.status = 500
          /\ calls[c].response.error = Str(ErrNotConfigured)

\* ------------------------------------------------------------------------
\* C14

\* The invocations whose automation session is running
InFlight == {c \in Calls : calls[c].pc \in {"launching", "automating", "closing"}}

\* C14: at most one automation session is in flight at any time.
C14_OneFetchInFlight == Cardinality(InFlight) <= 1

\* ------------------------------------------------------------------------
\* C15

\* An invocation has begun and has not reached its first stage, and no
\* other invocation is running
FetchJustBegun ==
    \E c \in Calls : calls[c].pc = "launching" /\ RunsAlone(c)

\* C15: a status query made after a POST has begun and before it reaches
\* its first stage answers 'idle', not the stage of the request before.
C15_ResetToIdle ==
    (FetchJustBegun /\ polled.status = 200) => polled.body.status = "idle"

\* ------------------------------------------------------------------------
\* C16

\* The place of a stage in the order of the stages
StageRank(status) ==
    CASE status = "idle" -> 0
      [] status = "navigating" -> 1
      [] status = "logging-in" -> 2
      [] status = "navigating-to-reporting" -> 3
      [] status = "selecting-store" -> 4
      [] status = "running-report" -> 5
      [] status = "exporting" -> 6
      [] status = "processing" -> 7
      [] status = "completed" -> 8

\* currentStatus before and after each of the calls updateStatus(msgs[1]), ...
RECURSIVE StatusTrace(_, _)
StatusTrace(cur, msgs) ==
    IF msgs = <<>> THEN <<cur>>
    ELSE <<cur>> \o StatusTrace(updateStatusAll([currentStatus |-> cur,
                                                 statusMessage |-> <<>>],
                                                <<Head(msgs)>>).currentStatus,
                                Tail(msgs))

StagesInOrder(trace) ==
    \A i \in 1..Len(trace) - 1 : StageRank(trace[i]) <= StageRank(trace[i + 1])

\* The status messages that invocation c issues on this step
IssuedOnStep(c) ==
    IF calls'[c].pc = "automating" THEN <<AutomationMsgs[calls'[c].step]>>
    ELSE IF calls'[c].pc = "done" THEN processSheet(sheet, calls[c].req).msgs
    ELSE <<>>

\* C16: over the updateStatus calls of one POST that follow its first stage,
\* currentStatus goes through the stages in their order and never returns
\* to an earlier one.
C16_StagesInOrder ==
    [][\A c \in Calls :
          (calls[c].pc = "automating" /\ calls'[c] # calls[c]) =>
              StagesInOrder(StatusTrace(currentStatus, IssuedOnStep(c)))]_vars

\* ------------------------------------------------------------------------
\* C17

\* The keys of a cache, oldest insertion first
KeysOf(cache) == [i \in 1..Len(cache) |-> cache[i].key]

\* This step answers, with a Summary it computed, a request whose key the
\* full cache does not hold
InsertsIntoFull ==
    /\ Len(cachedResponses) = 20
    /\ response'.status = 200
    /\ response'._error = Undefined
    /\ \A i \in 1..20 : cachedResponses[i].key # cacheKeyOf(request')

\* C17: the cache holds at most 20 entries in every state, and a step that
\* inserts a new key into a cache of 20 removes the entry inserted earliest
\* and appends the new one, in that one step.
C17_CacheBounded ==
    /\ [](Len(cachedResponses) <= 20)
    /\ [][InsertsIntoFull =>
            KeysOf(cachedResponses') =
                Tail(KeysOf(cachedResponses)) \o <<cacheKeyOf(request')>>]_vars

\* C17 witness: after 21 different requests the cache holds the 2nd to the
\* 21st, the first one is gone.
C17_Witness ==
    /\ Len(cachedResponses) = 20
    /\ cachedResponses[1].key = cacheKeyOf(RequestNo(2))
    /\ cachedResponses[20].key = cacheKeyOf(RequestNo(21))
    /\ request = RequestNo(21)

\* ------------------------------------------------------------------------
\* C18

\* C18: every POST response that carries the fallback dataset carries the
\* _error field.
C18_FallbackIsMarked ==
    \A c \in Calls :
        (/\ calls[c].pc = "done"
         /\ calls[c].response.hasSummary
         /\ calls[c].response.summary.totalOrders = 24
         /\ calls[c].response.summary.averageOrderValue = 42330
         /\ calls[c].response.summary.cashSalesInStore = 256750) =>
            calls[c].response._error # Undefined

\* ------------------------------------------------------------------------
\* C19

\* The invocation c is answered in this step
Answered(c) == calls[c].pc # "done" /\ calls'[c].pc = "done"

\* The answer of production to the request req, with the cache as it is
IsProductionAnswer(resp, req) ==
    /\ resp.status = 200
    /\ \/ resp = mockResponse
       \/ /\ cacheHas(cachedResponses, cacheKeyOf(req))
          /\ resp = summaryResponse(cacheGet(cachedResponses, cacheKeyOf(req)))

\* C19: in production mode no POST launches a browser or automates: it is
\* answered in one step with status 200 and the cached summary of exactly its
\* key or the mock dataset, and the step changes neither the status variables
\* nor the cache.
C19_ProductionNeverAutomates ==
    /\ [](NODE_ENV = "production" =>
            \A c \in Calls : calls[c].pc \in {"idle", "done"} /\ ~calls[c].browser)
    /\ [][NODE_ENV = "production" /\ calls' # calls =>
            /\ \E c \in Calls :
                  /\ calls[c].pc = "idle"
                  /\ Answered(c)
                  /\ IsProductionAnswer(calls'[c].response, calls'[c].req)
            /\ UNCHANGED <<currentStatus, statusMessage, lastUpdated,
                           cachedResponses>>]_vars

C19_Witness ==
    /\ NODE_ENV = "production"
    /\ \E c \in Calls : calls[c].pc = "done" /\ calls[c].response = mockResponse
    /\ currentStatus = "idle"
    /\ cachedResponses = <<>>

\* ------------------------------------------------------------------------
\* C20

\* The step is a status query that is answered
Polls == polled'.status # 0

\* C20: a status query is answered in every state with status 200 and the
\* current status, message and lastUpdated, and it changes none of
\* currentStatus, statusMessage, lastUpdated and the cache.
C20_StatusQuerySafe ==
    /\ [](ENABLED GET)
    /\ [][Polls =>
            /\ polled'.status = 200
            /\ polled'.body.status = currentStatus
            /\ polled'.body.message = statusMessage
            /\ polled'.body.lastUpdated = lastUpdated
            /\ UNCHANGED <<currentStatus, statusMessage, lastUpdated,
                           cachedResponses>>]_vars

C20_Witness ==
    /\ polled.status = 200
    /\ polled.body.status = "selecting-store"
    /\ \E c \in Calls : calls[c].pc = "automating"

\* ------------------------------------------------------------------------
\* C21

\* The invocation c has caught the timeout of a wait on the portal
TimedOut(c) == calls[c].pc = "closing" /\ calls[c].message = ErrTimeout

\* C21: every POST that has arrived is eventually answered, and one whose
\* wait on the portal timed out is answered with the fallback response that
\* carries the timeout in _error.
C21_EveryPostAnswered ==
    \A c \in Calls :
        /\ (calls[c].pc # "idle") ~> (calls[c].pc = "done")
        /\ TimedOut(c) ~>
              (/\ calls[c].pc = "done"
               /\ calls[c].response = automationErrorResponse(ErrTimeout))

C21_Witness ==
    \E c \in Calls :
        /\ calls[c].pc = "done"
        /\ calls[c].response = automationErrorResponse(ErrTimeout)
        /\ currentStatus = "running-report"

\* ------------------------------------------------------------------------
\* C22

\* The response carries a Summary computed from a sheet
IsComputedSummary(resp) ==
    /\ resp.status = 200
    /\ resp.hasSummary
    /\ resp._note = Undefined
    /\ resp._error = Undefined

\* C22: a request whose own export put no report file into the download
\* folder is answered with the fallback result: a computed Summary always
\* comes from the file that the request's own export wrote.
C22_NoStaleReport ==
    [][\A c \in Calls :
          (/\ calls[c].pc = "automating"
           /\ Answered(c)
           /\ IsComputedSummary(calls'[c].response)) => sheet.by = c]_vars

\* ------------------------------------------------------------------------
\* C23

\* C23: once a status poll of the page has shown 'completed' or 'error', the
\* page issues no further status GET for that submit.
C23_StopsPolling == [][page.final => polled'.status = 0]_vars

\* ------------------------------------------------------------------------
\* C28

\* The page has handled the response of every POST it has sent
ResponseHandled == page.submits > 0 /\ page.handled = page.submits

\* C28: from the handling of a submit's POST response until the next submit,
\* isLoading is false and the page shows 'completed' or 'error': a status
\* poll that was under way does not put an intermediate stage back.
C28_FinalStatusStays ==
    ResponseHandled =>
        ~page.isLoading /\ page.status \in {"completed", "error"}

\* ------------------------------------------------------------------------
\* C24

\* The order-details file of the directory that was written last
LatestReport ==
    LET kept == {i \in 1..Len(folder.files) :
                    startsWith(folder.files[i], OrderDetails)}
    IN  IF kept = {} THEN <<>>
        ELSE folder.files[CHOOSE i \in kept : \A j \in kept : j <= i]

\* C24: with several order-details files in the download directory, every
\* fetch variant takes the one that was written last.
C24_LatestFile == folder.variant # "" => folder.excelFile = LatestReport

\* ------------------------------------------------------------------------
\* C25

\* The hour, the minute and the marker that a Time cell "h:mm AM" shows
ShownClock(text) ==
    LET c == IF text[2] = ":" THEN 2 ELSE 3
    IN  [hour   |-> IF c = 2 THEN DigitVal(text[1])
                    ELSE 10 * DigitVal(text[1]) + DigitVal(text[2]),
         minute |-> 10 * DigitVal(text[c + 1]) + DigitVal(text[c + 2]),
         am     |-> text[Len(text) - 1] \in {"A", "a"}]

\* The (hour, minute) of the 24-hour clock that the claim gives the cell
RefClock24(text) ==
    LET t == ShownClock(text)
    IN  CASE t.am /\ t.hour = 12  -> <<0, t.minute>>
          [] t.am /\ t.hour < 12  -> <<t.hour, t.minute>>
          [] ~t.am /\ t.hour = 12 -> <<12, t.minute>>
          [] ~t.am /\ t.hour < 12 -> <<t.hour + 12, t.minute>>

\* The (hour, minute) that a "HH:MM" of a request shows
RefClockOfRequest(dateTime) ==
    LET hhmm == ClockOf(dateTime)
    IN  <<10 * DigitVal(hhmm[1]) + DigitVal(hhmm[2]),
          10 * DigitVal(hhmm[4]) + DigitVal(hhmm[5])>>

\* A request over a sheet of one row was answered with a computed Summary
OneRowAnswered ==
    /\ Len(sheet.rows) = 1
    /\ response.status = 200
    /\ response._error = Undefined
    /\ response._note = Undefined

\* C25: for every hour 1..12, minute 0..59 and marker AM or PM in either
\* case, the row counts exactly when the time that the claim's conversion
\* gives it lies in the window: 12 AM is hour 0, 1..11 AM stay, 12 PM stays
\* 12, 1..11 PM are 13..23, the minute stays; in particular the window of
\* exactly that minute holds the row.
C25_To24Hours ==
    OneRowAnswered =>
        LET t == RefClock24(sheet.rows[1].Time.s)
        IN  /\ Len(df) = 1 <=>
                  /\ LexLe(RefClockOfRequest(request.startDateTime), t)
                  /\ LexLe(t, RefClockOfRequest(request.endDateTime))
            /\ response.summary.totalOrders = Len(df)

C25_Witness ==
    /\ OneRowAnswered
    /\ sheet.rows[1].Time.s = <<"1", "2", ":", "3", "0", " ", "a", "m">>
    /\ request = Req(Day26, <<"0", "0", ":", "3", "0">>,
                     Day26, <<"0", "0", ":", "3", "0">>)
    /\ Len(df) = 1

\* ------------------------------------------------------------------------
\* C26

\* C26: a status query answers 'completed' only when no POST is still on its
\* way to its Summary.
C26_CompletedOnlyAfterSummary ==
    (polled.status = 200 /\ polled.body.status = "completed") =>
        \A c \in Calls : calls[c].pc \in {"idle", "done"}

\* ------------------------------------------------------------------------
\* C27

\* C27: a handler that has returned its response has closed the browser it
\* launched.
C27_BrowserClosed ==
    \A c \in Calls : calls[c].pc = "done" => ~calls[c].browser

\* ------------------------------------------------------------------------
\* C29

\* The invocation c arrives in this step
Arriving(c) == calls[c].pc = "idle" /\ calls'[c].pc # "idle"

\* C29: a POST for a pair of startDateTime and endDateTime that the cache
\* holds is answered at once with the stored Summary, without a browser.
C29_CacheHit ==
    [][\A c \in Calls :
          (Arriving(c) /\ cacheHas(cachedResponses, cacheKeyOf(calls'[c].req)))
             => /\ calls'[c].pc = "done"
                /\ ~calls'[c].browser
                /\ calls'[c].response =
                      summaryResponse(cacheGet(cachedResponses,
                                               cacheKeyOf(calls'[c].req)))]_vars

\* ------------------------------------------------------------------------
\* C30

\* The request's start is later in the day than its end
Inverted(req) == WellFormed(req) /\ ~LexLe(RefStart(req), RefEnd(req))

\* C30: a window whose start (hour, minute) is later than its end keeps no
\* row: totalOrders, averageOrderValue and the four category sums are 0,
\* whatever the rows of the sheet.
C30_InvertedWindowEmpty ==
    (IsComputedSummary(response) /\ Inverted(request)) =>
        /\ df = <<>>
        /\ response.summary.totalOrders = 0
        /\ response.summary.averageOrderValue = 0
        /\ response.summary.cashSalesInStore = 0
        /\ response.summary.cashSalesDelivery = 0
        /\ response.summary.creditCardTipsInStore = 0
        /\ response.summary.creditCardTipsDelivery = 0

C30_Witness ==
    /\ IsComputedSummary(response)
    /\ Inverted(request)
    /\ Len(sheet.rows) = MaxRows
    /\ \E i \in 1..Len(sheet.rows) :
          /\ ParseableTime(sheet.rows[i]) /\ TextDate(sheet.rows[i])
          /\ LexLe(RefEnd(request), RefTimeOf(sheet.rows[i].Time.s))
          /\ LexLe(RefTimeOf(sheet.rows[i].Time.s), RefStart(request))
    /\ df = <<>>

====
